---- MODULE Spec2Model ----
(***************************************************************************)
(* SolanaStakePulse: the fetch / cache / aggregate pipeline.               *)
(*                                                                         *)
(*   src/utils/solana_client.py   RPC Gateway and the three fetches        *)
(*   src/utils/database.py        Cache Store                              *)
(*   src/utils/data_processor.py  Aggregator                               *)
(*   src/app.py                   Orchestrator (one script run per rerun)  *)
(*                                                                         *)
(* Python values are represented as follows.                               *)
(*   None / optional value   a sequence of length 0 (None) or 1 (Some)     *)
(*   dict                    a record (a function on strings)              *)
(*   list, DataFrame         a sequence (of rows)                          *)
(*   float                   an exact rational [n, d], normalised          *)
(*   call outcome            [ok, val] or [ok, type, msg] (raised)         *)
(* Time is counted in seconds, as time.time() and datetime.now() do.       *)
(***************************************************************************)
EXTENDS Integers, Sequences, FiniteSets, TLC

(***************************************************************************)
(* Bounds of the model.                                                    *)
(***************************************************************************)
\* refresh cycles (runs of the script with should_update) that are explored
MaxCycles == 2
\* advances of the clock that are explored
MaxTicks == 1

(***************************************************************************)
(* Program constants.                                                      *)
(***************************************************************************)
LAMPORTS_PER_SOL == 1000000000
\* SolanaClient.get_*(cache_max_age=30), in minutes
cache_max_age == 30
\* SolanaClient.get_stake_accounts(limit=50)
stake_limit == 50
\* DatabaseManager.get_latest_stake_data(limit=1000)
default_read_limit == 1000
\* DataProcessor: 'accounts': stake_accounts_data[:100]
ui_account_limit == 100
\* the slider: min_value=30, max_value=300, step=30; the default is 60
min_refresh_interval == 30
max_refresh_interval == 300
default_refresh_interval == 60
\* response.status_code != 200
HTTP_OK == 200

\* the values of the refresh-interval slider that the model explores
RefreshIntervals == {default_refresh_interval, max_refresh_interval}
\* time.time() of the first run: far from the epoch, so that the first run
\* finds (current_time - 0) > refresh_interval for every slider value
StartTime == 2 * max_refresh_interval
\* the amounts by which the clock advances between two steps (seconds)
TickSteps == {default_refresh_interval, cache_max_age * 60 + default_refresh_interval}
Pages == {"Overview", "Validator Metrics", "Stake Distribution", "Network Statistics"}

(***************************************************************************)
(* Optional values and call outcomes.                                      *)
(***************************************************************************)
None == << >>
Some(v) == << v >>
IsNone(o) == o = << >>
The(o) == o[1]

Return(v) == [ok |-> TRUE, val |-> v]
Raise(t, m) == [ok |-> FALSE, type |-> t, msg |-> m]

EmptyDict == [k \in {} |-> 0]
\* dict.get(key, default)
Get(d, k, default) == IF k \in DOMAIN d THEN d[k] ELSE default

(***************************************************************************)
(* Exact rationals, for Python floats.                                     *)
(***************************************************************************)
Abs(x) == IF x < 0 THEN -x ELSE x

RECURSIVE GCD(_, _)
GCD(a, b) == IF b = 0 THEN a ELSE GCD(b, a % b)

Rat(n, d) ==
    LET g == GCD(Abs(n), Abs(d))
        s == IF d < 0 THEN -1 ELSE 1
    IN  [n |-> s * (n \div g), d |-> s * (d \div g)]
RInt(i) == [n |-> i, d |-> 1]
RZero == RInt(0)
\* cross-cancel before multiplying, so that intermediate products stay small
RMul(a, b) ==
    LET x == Rat(a.n, b.d)
        y == Rat(b.n, a.d)
    IN  Rat(x.n * y.n, x.d * y.d)
RDiv(a, b) == RMul(a, Rat(b.d, b.n))
RAdd(a, b) ==
    LET g == GCD(a.d, b.d)
    IN  Rat(a.n * (b.d \div g) + b.n * (a.d \div g), (a.d \div g) * b.d)
RSub(a, b) == RAdd(a, [n |-> -b.n, d |-> b.d])
RLt(a, b) == a.n * b.d < b.n * a.d
RLe(a, b) == a.n * b.d <= b.n * a.d
RGt(a, b) == RLt(b, a)

\* sum(s[lo..hi]); the halves are summed apart to keep the evaluation shallow
RECURSIVE RSumRange(_, _, _)
RSumRange(s, lo, hi) ==
    IF lo > hi THEN RZero
    ELSE IF lo = hi THEN s[lo]
    ELSE RAdd(RSumRange(s, lo, (lo + hi) \div 2),
              RSumRange(s, (lo + hi) \div 2 + 1, hi))
RSum(s) == RSumRange(s, 1, Len(s))

\* a list with its elements computed: the sequence f, element by element
List(f) == SubSeq(f, 1, Len(f))

\* seq[:n]
Take(s, n) == IF Len(s) <= n THEN s ELSE SubSeq(s, 1, n)

(***************************************************************************)
(* The remote endpoint: what an HTTP POST of a JSON-RPC request can give.  *)
(* A response is [reachable, status, text, body]; body is the decoded JSON *)
(* object, with a "result" key, an "error" key, both or neither.           *)
(***************************************************************************)
OkResponse(result) ==
    [reachable |-> TRUE, status |-> HTTP_OK, text |-> "", body |-> [result |-> result]]

\* the remote's structured error of an unbounded program-account scan
ScanLimitError == [code |-> -32010, message |-> "accumulated scan results exceeded the limit"]
RateLimitError == [code |-> 429, message |-> "Too many requests"]

ConnectionDown == [reachable |-> FALSE, status |-> 0, text |-> "", body |-> EmptyDict]
HttpFailure == [reachable |-> TRUE, status |-> 429, text |-> "Too Many Requests", body |-> EmptyDict]
\* a non-success status whose body also carries an error object
HttpFailureWithError ==
    [reachable |-> TRUE, status |-> 500, text |-> "error", body |-> [error |-> RateLimitError]]
RemoteError(e) ==
    [reachable |-> TRUE, status |-> HTTP_OK, text |-> "", body |-> [error |-> e]]
\* an error object next to a result
RemoteErrorWithResult(e, r) ==
    [reachable |-> TRUE, status |-> HTTP_OK, text |-> "", body |-> [error |-> e, result |-> r]]
\* a success status whose body has neither key
Malformed == [reachable |-> TRUE, status |-> HTTP_OK, text |-> "", body |-> EmptyDict]

TransportFailures == {ConnectionDown, HttpFailure, HttpFailureWithError}
RemoteErrors == {RemoteError(ScanLimitError), RemoteError(RateLimitError)}
FailResponses == TransportFailures \cup RemoteErrors \cup {Malformed}

IsTransportFailure(resp) == ~resp.reachable \/ resp.status # HTTP_OK
IsRemoteError(resp) == ~IsTransportFailure(resp) /\ "error" \in DOMAIN resp.body

(***************************************************************************)
(* RPC Gateway.                                                            *)
(***************************************************************************)
\* A gateway that looks at the body's error object before the HTTP status.
make_rpc_request_error_first(resp) ==
    IF ~resp.reachable
    THEN Raise("ConnectionError", << "connection failed" >>)
    ELSE IF "error" \in DOMAIN resp.body
    THEN Raise("Exception", << "RPC error", resp.body.error >>)
    ELSE IF resp.status # HTTP_OK
    THEN Raise("Exception", << "RPC request failed with status", resp.status, resp.text >>)
    ELSE IF "result" \in DOMAIN resp.body
    THEN Return(resp.body.result)
    ELSE Raise("KeyError", << "result" >>)

\* SolanaClient._make_rpc_request, given the response requests.post obtains.
\* requests.post raises (ConnectionError) when the endpoint is not reached.
make_rpc_request(resp) ==
    IF ~resp.reachable
    THEN Raise("ConnectionError", << "connection failed" >>)
    ELSE IF resp.status # HTTP_OK
    THEN Raise("Exception", << "RPC request failed with status", resp.status, resp.text >>)
    ELSE IF "error" \in DOMAIN resp.body
    THEN Raise("Exception", << "RPC error", resp.body.error >>)
    ELSE IF "result" \notin DOMAIN resp.body
    THEN Raise("KeyError", << "result" >>)
    ELSE Return(resp.body.result)

\* one entry of the log of requests sent to the endpoint
Request(method, resp) == [method |-> method, resp |-> resp, out |-> make_rpc_request(resp)]

(***************************************************************************)
(* Cache Store (src/utils/database.py).  A table is the sequence of its    *)
(* rows in insertion order.  datetime.now() is finer than the model's      *)
(* clock, so of two rows with the same model timestamp the one inserted    *)
(* later is the later one.  `avail` is the module flag database_available; *)
(* `fail` says that the session's query or commit raises.                  *)
(***************************************************************************)
json_dumps(v) == [json |-> v]
json_loads(s) == s.json

\* Python truthiness of a dict or list held as a function
Truthy(d) == DOMAIN d # {}
\* truthiness of an optional dict: None and {} are both falsy
TruthyOpt(o) == ~IsNone(o) /\ Truthy(The(o))

\* A latest-row query that orders by ascending timestamp.
LatestRow_oldest_first(tbl) ==
    tbl[CHOOSE i \in 1..Len(tbl) :
            \A j \in 1..Len(tbl) :
                /\ tbl[j].timestamp >= tbl[i].timestamp
                /\ (j < i => tbl[j].timestamp > tbl[i].timestamp)]

\* query.order_by(timestamp.desc()).first(), on a non-empty table
LatestRow(tbl) ==
    tbl[CHOOSE i \in 1..Len(tbl) :
            \A j \in 1..Len(tbl) :
                /\ tbl[j].timestamp <= tbl[i].timestamp
                /\ (j > i => tbl[j].timestamp < tbl[i].timestamp)]

\* A rank with method='dense': one more than the number of distinct larger values.
RankDense(rows, col, i) ==
    1 + Cardinality({rows[j][col] : j \in {k \in 1..Len(rows) : RGt(rows[k][col], rows[i][col])}})

\* pandas rank(ascending=False, method='min') of row i by column `col`
RankMin(rows, col, i) ==
    1 + Cardinality({j \in 1..Len(rows) : RGt(rows[j][col], rows[i][col])})

\* Buckets closed on the right (pd.cut with right=True), over the same edges.
InBucket_right_closed(b, k) ==
    /\ RLt(RInt(<< 0, 100, 1000, 10000, 100000 >>[k]), b)
    /\ (k < 5 => RLe(b, RInt(<< 0, 100, 1000, 10000, 100000 >>[k + 1])))

\* pd.cut(balance, [0, 100, 1000, 10000, 100000, inf], right=False)
BucketEdges == << 0, 100, 1000, 10000, 100000 >>
BucketLabels == << "0-100", "100-1K", "1K-10K", "10K-100K", "100K+" >>
InBucket(b, k) ==
    /\ RLe(RInt(BucketEdges[k]), b)
    /\ (k < Len(BucketEdges) => RLt(b, RInt(BucketEdges[k + 1])))
\* A grouping that reports the observed categories only: a bucket without a
\* balance has no entry.
Distribution_observed_only(balances) ==
    LET observed == SelectSeq(<< 1, 2, 3, 4, 5 >>,
                              LAMBDA k : \E i \in 1..Len(balances) : InBucket(balances[i], k))
    IN  [categories |-> List([j \in 1..Len(observed) |-> BucketLabels[observed[j]]]),
         counts |-> List([j \in 1..Len(observed) |->
                            Len(SelectSeq(balances, LAMBDA b : InBucket(b, observed[j])))]),
         amounts |-> List([j \in 1..Len(observed) |->
                             RSum(SelectSeq(balances, LAMBDA b : InBucket(b, observed[j])))])]

\* groupby(category).agg(count, sum): every category is reported
Distribution(balances) ==
    IF balances = << >>
    THEN [categories |-> << >>, counts |-> << >>, amounts |-> << >>]
    ELSE [categories |-> BucketLabels,
          counts |-> [k \in 1..Len(BucketLabels) |->
                         Len(SelectSeq(balances, LAMBDA b : InBucket(b, k)))],
          amounts |-> [k \in 1..Len(BucketLabels) |->
                         RSum(SelectSeq(balances, LAMBDA b : InBucket(b, k)))]]

store_validators_data(tbl, avail, validators_df, epoch, t, fail) ==
    IF ~avail \/ IsNone(validators_df) \/ The(validators_df) = << >>
    THEN tbl
    ELSE IF fail
    THEN tbl
    ELSE tbl \o [i \in 1..Len(The(validators_df)) |->
                    LET v == The(validators_df)[i]
                    IN  [timestamp |-> t, epoch |-> epoch,
                         node_pubkey |-> Get(v, "nodePubkey", None),
                         vote_pubkey |-> Get(v, "votePubkey", None),
                         activated_stake |-> Get(v, "activatedStake", RZero),
                         stake_percentage |-> Get(v, "stakePercentage", RZero),
                         commission |-> Get(v, "commission", 0),
                         last_vote |-> Get(v, "lastVote", 0),
                         root_slot |-> Get(v, "rootSlot", 0),
                         credits |-> Get(v, "credits", 0),
                         status |-> Get(v, "status", "Unknown")]]

\* a record that lacks one of the keys read raises KeyError inside the try
NetworkKeysPresent(d) ==
    /\ {"epoch", "inflation", "supply", "validators", "performance"} \subseteq DOMAIN d
    /\ {"current", "slots_in_epoch", "slot_index", "progress_percentage",
        "hours_remaining"} \subseteq DOMAIN d.epoch
    /\ {"total", "validator", "foundation"} \subseteq DOMAIN d.inflation
    /\ {"total", "circulating", "staked", "staking_ratio"} \subseteq DOMAIN d.supply
    /\ {"active", "delinquent"} \subseteq DOMAIN d.validators
    /\ "current_slot" \in DOMAIN d.performance

\* A store_network_info that does not look at database_available.
store_network_info_unguarded(tbl, avail, network_data, t, fail) ==
    IF IsNone(network_data) \/ fail
    THEN tbl
    ELSE Append(tbl, [timestamp |-> t,
                      epoch |-> The(network_data).epoch.current,
                      data_json |-> json_dumps(The(network_data))])

store_network_info(tbl, avail, network_data, t, fail) ==
    IF ~avail \/ IsNone(network_data)
    THEN tbl
    ELSE IF fail \/ ~NetworkKeysPresent(The(network_data))
    THEN tbl
    ELSE LET d == The(network_data)
         IN  Append(tbl,
                [timestamp |-> t,
                 epoch |-> d.epoch.current,
                 slots_in_epoch |-> d.epoch.slots_in_epoch,
                 slot_index |-> d.epoch.slot_index,
                 epoch_progress |-> d.epoch.progress_percentage,
                 hours_remaining |-> d.epoch.hours_remaining,
                 inflation_total |-> d.inflation.total,
                 inflation_validator |-> d.inflation.validator,
                 inflation_foundation |-> d.inflation.foundation,
                 total_supply |-> d.supply.total,
                 circulating_supply |-> d.supply.circulating,
                 staked_supply |-> d.supply.staked,
                 staking_ratio |-> d.supply.staking_ratio,
                 active_validators |-> d.validators.active,
                 delinquent_validators |-> d.validators.delinquent,
                 current_slot |-> d.performance.current_slot,
                 data_json |-> json_dumps(d)])

\* A store_stake_accounts whose failing commit leaves its first row behind.
store_stake_accounts_no_rollback(tbl, avail, stake_data, epoch, t, fail) ==
    IF ~avail \/ IsNone(stake_data) \/ ~Truthy(Get(The(stake_data), "accounts", << >>))
    THEN tbl
    ELSE SubSeq(tbl \o [i \in 1..Len(The(stake_data).accounts) |->
                           [timestamp |-> t, epoch |-> epoch,
                            pubkey |-> Get(The(stake_data).accounts[i], "pubkey", None),
                            balance |-> Get(The(stake_data).accounts[i], "balance", RZero),
                            parsed_data |-> None]],
                1, IF fail THEN Len(tbl) + 1 ELSE Len(tbl) + Len(The(stake_data).accounts))

store_stake_accounts(tbl, avail, stake_data, epoch, t, fail) ==
    IF ~avail \/ IsNone(stake_data) \/ ~Truthy(Get(The(stake_data), "accounts", << >>))
    THEN tbl
    ELSE IF fail
    THEN tbl
    ELSE tbl \o [i \in 1..Len(The(stake_data).accounts) |->
                    LET a == The(stake_data).accounts[i]
                    IN  [timestamp |-> t, epoch |-> epoch,
                         pubkey |-> Get(a, "pubkey", None),
                         balance |-> Get(a, "balance", RZero),
                         parsed_data |-> IF TruthyOpt(Get(a, "parsed", None))
                                         THEN Some(json_dumps(The(a.parsed)))
                                         ELSE None]]

\* the DataFrame built from the rows of the latest epoch, with its rank column
validators_frame(data) ==
    List([i \in 1..Len(data) |-> data[i] @@ [rank |-> RankMin(data, "activatedStake", i)]])

validator_record(v) ==
    [nodePubkey |-> v.node_pubkey,
     votePubkey |-> v.vote_pubkey,
     activatedStake |-> v.activated_stake,
     stakePercentage |-> v.stake_percentage,
     commission |-> v.commission,
     lastVote |-> v.last_vote,
     rootSlot |-> v.root_slot,
     credits |-> v.credits,
     status |-> v.status]

rows_of_epoch(tbl, latest_epoch) == SelectSeq(tbl, LAMBDA r : r.epoch = latest_epoch)

get_latest_validators_data(tbl, avail, fail) ==
    IF ~avail THEN None
    ELSE IF fail THEN None
    ELSE IF tbl = << >> THEN None
    ELSE Some(validators_frame(
                List([i \in 1..Len(rows_of_epoch(tbl, LatestRow(tbl).epoch)) |->
                    validator_record(rows_of_epoch(tbl, LatestRow(tbl).epoch)[i])])))

get_latest_network_info(tbl, avail, fail) ==
    IF ~avail THEN None
    ELSE IF fail THEN None
    ELSE IF tbl = << >> THEN None
    ELSE Some(json_loads(LatestRow(tbl).data_json))

stake_account_record(account) ==
    [pubkey |-> account.pubkey,
     balance |-> account.balance,
     parsed |-> IF ~IsNone(account.parsed_data)
                THEN Some(json_loads(The(account.parsed_data)))
                ELSE None]

\* the dict that get_latest_stake_data returns for accounts_data
latest_stake_info(accounts_data, balances) ==
    [total_stake |-> RSum(balances),
     total_accounts |-> Len(balances),
     distribution |-> Distribution(balances),
     accounts |-> accounts_data]

latest_stake_info_of(accounts_data) ==
    latest_stake_info(accounts_data,
                      List([i \in 1..Len(accounts_data) |-> accounts_data[i].balance]))

latest_stake_accounts(accounts) ==
    latest_stake_info_of(List([i \in 1..Len(accounts) |-> stake_account_record(accounts[i])]))

get_latest_stake_data(tbl, avail, limit, fail) ==
    IF ~avail THEN None
    ELSE IF fail THEN None
    ELSE IF tbl = << >> THEN None
    ELSE Some(latest_stake_accounts(Take(rows_of_epoch(tbl, LatestRow(tbl).epoch), limit)))

\* An is_data_fresh that also accepts a snapshot exactly max_age_minutes old.
is_data_fresh_inclusive(tbl, avail, max_age_minutes, t, fail) ==
    /\ avail
    /\ ~fail
    /\ tbl # << >>
    /\ LatestRow(tbl).timestamp >= t - 60 * max_age_minutes

\* latest_timestamp > datetime.now() - timedelta(minutes=max_age_minutes)
is_data_fresh(tbl, avail, max_age_minutes, t, fail) ==
    IF ~avail THEN FALSE
    ELSE IF fail THEN FALSE
    ELSE IF tbl = << >> THEN FALSE
    ELSE LatestRow(tbl).timestamp > t - 60 * max_age_minutes

(***************************************************************************)
(* Aggregator (src/utils/data_processor.py).                               *)
(***************************************************************************)
\* round(x, 2), ties to even
RRound2(r) ==
    LET x == RMul(r, RInt(100))
        q == x.n \div x.d
        rem == x.n - q * x.d
        up == \/ 2 * rem > x.d
              \/ (2 * rem = x.d /\ q % 2 = 1)
    IN  Rat(IF up THEN q + 1 ELSE q, 100)

\* Amounts of lamports are held as their count of units of LamportUnit lamports
\* (a Python int has no width, the model's integers have 32 bits); every amount
\* the remote reports is a whole number of units.
LamportUnit == 10 ^ 6
UnitsPerSol == LAMPORTS_PER_SOL \div LamportUnit

\* float(lamports) / 10**9
ToSol(lamports) == RDiv(RInt(lamports), RInt(UnitsPerSol))

\* seconds_per_slot = 0.4
seconds_per_slot == Rat(2, 5)
\* network_info.get('inflation_rate', {}).get('total', 8.0)
default_inflation_rate == RInt(8)

Contains(s, x) == \E i \in 1..Len(s) : s[i] = x

\* one row of processed_data in _process_validators
validator_row(validator, activated_stake_sol, total_active_stake, current) ==
    [nodePubkey |-> Get(validator, "nodePubkey", "Unknown"),
     votePubkey |-> Get(validator, "votePubkey", "Unknown"),
     activatedStake |-> activated_stake_sol,
     stakePercentage |->
         IF RGt(total_active_stake, RZero)
         THEN RMul(RDiv(activated_stake_sol, total_active_stake), RInt(100))
         ELSE RZero,
     commission |-> Get(validator, "commission", 0),
     lastVote |-> Get(validator, "lastVote", 0),
     rootSlot |-> Get(validator, "rootSlot", 0),
     credits |->
         LET epoch_credits == Get(validator, "epochCredits", << >>)
         IN  IF epoch_credits # << >>
             THEN epoch_credits[Len(epoch_credits)][2] - epoch_credits[Len(epoch_credits)][1]
             ELSE 0,
     status |-> IF Contains(current, validator) THEN "Active" ELSE "Delinquent"]

\* float(v.get('activatedStake', 0)) / 10**9 for v in all_validators
validator_stakes(all_validators) ==
    List([i \in 1..Len(all_validators) |-> ToSol(Get(all_validators[i], "activatedStake", 0))])

validator_rows(all_validators, stakes, total_active_stake, current) ==
    List([i \in 1..Len(all_validators) |->
        validator_row(all_validators[i], stakes[i], total_active_stake, current)])

\* the columns added when the DataFrame is not empty: df['rank'], df['estimatedAPY']
with_rank_and_apy(df, inflation_rate) ==
    List([i \in 1..Len(df) |->
        df[i] @@ [rank |-> RankMin(df, "activatedStake", i),
                  estimatedAPY |->
                      RRound2(RMul(inflation_rate,
                                   RSub(RInt(1), Rat(df[i].commission, 100))))]])

\* Rows whose percentage is taken of the stake of the current validators only.
processed_rows_of_current_total(all_validators, stakes, current) ==
    validator_rows(all_validators, stakes, RSum(SubSeq(stakes, 1, Len(current))), current)

processed_rows(all_validators, stakes, current) ==
    validator_rows(all_validators, stakes, RSum(stakes), current)

merged_rows(all_validators, current) ==
    processed_rows(all_validators, validator_stakes(all_validators), current)

\* DataProcessor._process_validators: the DataFrame, as the sequence of its rows
process_validators(validators_info, network_info) ==
    with_rank_and_apy(
        merged_rows(Get(validators_info, "current", << >>)
                        \o Get(validators_info, "delinquent", << >>),
                    Get(validators_info, "current", << >>)),
        Get(Get(network_info, "inflation_rate", EmptyDict), "total",
            default_inflation_rate))

\* sort_values('activatedStake', ascending=False).head(n)['activatedStake'].sum():
\* the sum of the n largest stakes
RECURSIVE SortDesc(_)
SortDesc(s) ==
    IF s = << >> THEN << >>
    ELSE LET m == CHOOSE i \in 1..Len(s) : \A j \in 1..Len(s) : RLe(s[j], s[i])
         IN  << s[m] >> \o SortDesc(SubSeq(s, 1, m - 1) \o SubSeq(s, m + 1, Len(s)))
TopStake(stakes, n) == RSum(Take(SortDesc(stakes), n))

\* A stake_topN that is a fraction of one, not a percentage.
concentration_as_fraction(stakes, total_staked, n) ==
    IF stakes # << >> /\ RGt(total_staked, RZero)
    THEN RDiv(TopStake(stakes, n), total_staked)
    ELSE RZero

\* stake_topN of _process_network_info
concentration(stakes, total_staked, n) ==
    IF stakes # << >> /\ RGt(total_staked, RZero)
    THEN RMul(RDiv(TopStake(stakes, n), total_staked), RInt(100))
    ELSE RZero

\* the dict that _process_network_info returns, from the values it extracted
network_snapshot(epoch_info, inflation_rate, value, validators_df, stakes, total_staked, cluster_nodes, current_slot, t) ==
    LET current_epoch == Get(epoch_info, "epoch", 0)
        slots_in_epoch == Get(epoch_info, "slotsInEpoch", 0)
        slot_index == Get(epoch_info, "slotIndex", 0)
        circulating_supply ==
            IF Truthy(value) THEN ToSol(Get(value, "circulating", 0)) ELSE RZero
        active_validators ==
            Len(SelectSeq(validators_df, LAMBDA v : v.status = "Active"))
        delinquent_validators ==
            Len(SelectSeq(validators_df, LAMBDA v : v.status = "Delinquent"))
    IN  [epoch |-> [current |-> current_epoch,
                    slots_in_epoch |-> slots_in_epoch,
                    slot_index |-> slot_index,
                    progress_percentage |->
                        IF slots_in_epoch > 0
                        THEN RMul(Rat(slot_index, slots_in_epoch), RInt(100))
                        ELSE RZero,
                    hours_remaining |->
                        RDiv(RMul(RInt(slots_in_epoch - slot_index), seconds_per_slot),
                             RInt(3600))],
         inflation |-> [total |-> Get(inflation_rate, "total", RZero),
                        validator |-> Get(inflation_rate, "validator", RZero),
                        foundation |-> Get(inflation_rate, "foundation", RZero),
                        epoch |-> current_epoch],
         supply |-> [total |-> IF Truthy(value) THEN ToSol(Get(value, "total", 0))
                               ELSE RZero,
                     circulating |-> circulating_supply,
                     staked |-> total_staked,
                     staking_ratio |->
                         IF RGt(circulating_supply, RZero)
                         THEN RMul(RDiv(total_staked, circulating_supply), RInt(100))
                         ELSE RZero],
         validators |-> [active |-> active_validators,
                         delinquent |-> delinquent_validators,
                         total |-> active_validators + delinquent_validators],
         concentration |-> [top10 |-> concentration(stakes, total_staked, 10),
                            top20 |-> concentration(stakes, total_staked, 20),
                            top50 |-> concentration(stakes, total_staked, 50)],
         performance |-> [current_slot |-> current_slot,
                          node_count |-> Len(cluster_nodes)],
         updated_at |-> t]

snapshot_of_stakes(network_info, validators_df, stakes, t) ==
    network_snapshot(Get(network_info, "epoch_info", EmptyDict),
                     Get(network_info, "inflation_rate", EmptyDict),
                     Get(Get(network_info, "supply_info", EmptyDict), "value", EmptyDict),
                     validators_df, stakes, RSum(stakes),
                     Get(network_info, "cluster_nodes", << >>),
                     Get(network_info, "slot_info", 0), t)

\* A network pass whose reported slot is taken from the clock: its output
\* varies with the time of the aggregation beyond the timestamp.
process_network_info_clocked(network_info, validators_df, t) ==
    [snapshot_of_stakes(network_info, validators_df,
                        List([i \in 1..Len(validators_df) |-> validators_df[i].activatedStake]),
                        t)
        EXCEPT !.performance.current_slot = t]

\* DataProcessor._process_network_info; t is datetime.now()
process_network_info(network_info, validators_df, t) ==
    snapshot_of_stakes(network_info, validators_df,
                       List([i \in 1..Len(validators_df) |-> validators_df[i].activatedStake]),
                       t)

\* the result of _process_stake_accounts for no stake accounts
EmptyStakeInfo ==
    [total_stake |-> RZero, total_accounts |-> 0,
     distribution |-> [categories |-> << >>, counts |-> << >>, amounts |-> << >>],
     accounts |-> << >>]

\* one entry of stake_accounts_data in _process_stake_accounts
stake_account_row(account) ==
    LET account_data == Get(account, "account", EmptyDict)
        data == Get(account_data, "data", EmptyDict)
    IN  [pubkey |-> Get(account, "pubkey", "Unknown"),
         balance |-> ToSol(Get(account_data, "lamports", 0)),
         parsed |-> IF "parsed" \in DOMAIN data
                    THEN Some(Get(data.parsed, "info", EmptyDict))
                    ELSE None]

stake_info(stake_accounts_data, balances) ==
    [total_stake |-> RSum(balances),
     total_accounts |-> Len(stake_accounts_data),
     distribution |-> Distribution(balances),
     accounts |-> Take(stake_accounts_data, ui_account_limit)]

stake_info_of(stake_accounts_data) ==
    stake_info(stake_accounts_data,
               List([i \in 1..Len(stake_accounts_data) |-> stake_accounts_data[i].balance]))

\* DataProcessor._process_stake_accounts
process_stake_accounts(stake_accounts) ==
    IF stake_accounts = << >>
    THEN EmptyStakeInfo
    ELSE stake_info_of(List([i \in 1..Len(stake_accounts) |->
                           stake_account_row(stake_accounts[i])]))

processed(validators, network_info, stake_accounts, t) ==
    [processed_validators |-> validators,
     processed_network_info |-> process_network_info(network_info, validators, t),
     processed_stake_info |-> process_stake_accounts(stake_accounts)]

\* A DataProcessor whose stake pass iterates over its input without the
\* emptiness test: an absent input raises.
DataProcessor_iterating_absent(validators_info, network_info, stake_accounts, t) ==
    IF IsNone(validators_info) \/ IsNone(network_info)
    THEN Raise("AttributeError", << "'NoneType' object has no attribute 'get'" >>)
    ELSE IF stake_accounts = << >>
    THEN Raise("TypeError", << "'NoneType' object is not iterable" >>)
    ELSE Return(processed(process_validators(The(validators_info), The(network_info)),
                          The(network_info), stake_accounts, t))

\* DataProcessor(validators_info, network_info, stake_accounts): __init__ runs the
\* three passes; validators_info and network_info are optional values, and
\* None.get raises AttributeError
DataProcessor(validators_info, network_info, stake_accounts, t) ==
    IF IsNone(validators_info) \/ IsNone(network_info)
    THEN Raise("AttributeError", << "'NoneType' object has no attribute 'get'" >>)
    ELSE Return(processed(process_validators(The(validators_info), The(network_info)),
                          The(network_info), stake_accounts, t))

(***************************************************************************)
(* What the remote can answer (the results the model explores).            *)
(***************************************************************************)
Validator(n, stake, commission) ==
    [votePubkey |-> << "vote", n >>, nodePubkey |-> << "node", n >>,
     activatedStake |-> stake, commission |-> commission,
     lastVote |-> 10 + n, rootSlot |-> 9 + n,
     epochCredits |-> << << 1, 40, 10 >>, << 2, 90 + n, 40 >> >>,
     epochVoteAccount |-> TRUE]

VoteAccountsResults ==
    { [current |-> << Validator(1, 500, 5), Validator(2, 250, 10) >>,
       delinquent |-> << Validator(3, 250, 100) >>],
      [current |-> << Validator(1, 750, 5) >>, delinquent |-> << >>] }

EpochInfoResults ==
    { [epoch |-> e, slotIndex |-> 1, slotsInEpoch |-> 4, absoluteSlot |-> 4 * e + 1]
        : e \in {1, 2} }

InflationRateResults ==
    { [total |-> Rat(5, 100), validator |-> Rat(4, 100), foundation |-> Rat(1, 100),
       epoch |-> 1] }

SupplyResults ==
    { [value |-> [total |-> 2000, circulating |-> 1000,
                  nonCirculating |-> 1000]] }

SlotResults == { 5 }
ClusterNodesResults == { << [pubkey |-> << "node", 1 >>], [pubkey |-> << "node", 2 >>] >> }

StakeAccount(n, lamports) ==
    [pubkey |-> << "stake", n >>,
     account |-> [lamports |-> lamports,
                  data |-> [program |-> "stake",
                            parsed |-> [type |-> "delegated",
                                        info |-> [voter |-> << "vote", n >>]]]]]

ProgramAccountsResults ==
    { << >>,
      << StakeAccount(1, 500), StakeAccount(2, 2000) >> }

(***************************************************************************)
(* The three fetches of SolanaClient.  Each takes what its Cache Store     *)
(* read returned and the responses the endpoint gives to the requests it   *)
(* sends, in order, and yields                                             *)
(*    out    the outcome of the call                                       *)
(*    calls  the requests sent, in order                                   *)
(*    src    "cache" or "rpc": where the returned data came from           *)
(***************************************************************************)
\* the requests sent for `resps`, a sequence of responses, to `methods`: each
\* request is sent once, and none after the first that fails
FirstFailure(resps) ==
    IF \E i \in 1..Len(resps) : ~make_rpc_request(resps[i]).ok
    THEN CHOOSE i \in 1..Len(resps) :
            /\ ~make_rpc_request(resps[i]).ok
            /\ \A j \in 1..(i - 1) : make_rpc_request(resps[j]).ok
    ELSE 0
\* A sender that repeats a failed request once.
Sent_with_retry(methods, resps) ==
    LET k == FirstFailure(resps)
        n == IF k = 0 THEN Len(resps) ELSE k + 1
    IN  [i \in 1..n |-> IF i > k /\ k # 0
                        THEN Request(methods[k], resps[k])
                        ELSE Request(methods[i], resps[i])]

Sent(methods, resps) ==
    LET k == FirstFailure(resps)
        n == IF k = 0 THEN Len(resps) ELSE k
    IN  [i \in 1..n |-> Request(methods[i], resps[i])]

\* SolanaClient.get_validators
get_validators(use_cache, cached_data, resp) ==
    IF use_cache /\ ~IsNone(cached_data)
    THEN [out |-> Return(
                [current |-> SelectSeq(The(cached_data), LAMBDA r : r.status = "current"),
                 delinquent |-> SelectSeq(The(cached_data),
                                          LAMBDA r : r.status = "delinquent")]),
          calls |-> << >>, src |-> "cache"]
    ELSE [out |-> make_rpc_request(resp),
          calls |-> << Request("getVoteAccounts", resp) >>, src |-> "rpc"]

NetworkMethods ==
    << "getEpochInfo", "getInflationRate", "getSupply", "getSlot", "getClusterNodes" >>

\* the dict that get_network_info builds from the five results and the validators
network_processed_data(epoch_info, inflation_rate, supply_info, slot_info, cluster_nodes, validators) ==
    LET current_epoch == Get(epoch_info, "epoch", 0)
        slots_in_epoch == Get(epoch_info, "slotsInEpoch", 0)
        slot_index == Get(epoch_info, "slotIndex", 0)
        epoch_progress == IF slots_in_epoch > 0
                          THEN RMul(Rat(slot_index, slots_in_epoch), RInt(100))
                          ELSE RZero
        slots_remaining == slots_in_epoch - slot_index
        hours_remaining == Rat(slots_remaining * 2, 3600)
        current == Get(validators, "current", << >>)
        delinquent == Get(validators, "delinquent", << >>)
        value == Get(supply_info, "value", EmptyDict)
        total_supply == ToSol(Get(value, "total", 0))
        circulating_supply == ToSol(Get(value, "circulating", 0))
        all == current \o delinquent
        total_stake == RSum(List([i \in 1..Len(all) |->
                                ToSol(Get(all[i], "activatedStake", 0))]))
        staking_ratio == IF RGt(total_supply, RZero)
                         THEN RDiv(total_stake, total_supply)
                         ELSE RZero
    IN  [epoch |-> [current |-> current_epoch,
                    slots_in_epoch |-> slots_in_epoch,
                    slot_index |-> slot_index,
                    progress_percentage |-> epoch_progress,
                    hours_remaining |-> hours_remaining],
         inflation |->
             [total |-> RMul(Get(inflation_rate, "total", RZero), RInt(100)),
              validator |-> RMul(Get(inflation_rate, "validator", RZero), RInt(100)),
              foundation |-> RMul(Get(inflation_rate, "foundation", RZero), RInt(100))],
         supply |-> [total |-> total_supply,
                     circulating |-> circulating_supply,
                     staked |-> total_stake,
                     staking_ratio |-> staking_ratio],
         validators |-> [active |-> Len(current), delinquent |-> Len(delinquent)],
         performance |-> [current_slot |-> slot_info],
         raw_data |-> [epoch_info |-> epoch_info,
                       inflation_rate |-> inflation_rate,
                       supply_info |-> supply_info,
                       cluster_nodes |-> cluster_nodes]]

\* get_network_info lines 205-211: the write-back and the return
network_stored(processed_data, calls, tbl, avail, t, fail) ==
    [out |-> Return(processed_data), calls |-> calls, src |-> "rpc",
     tbl |-> store_network_info(tbl, avail, Some(processed_data), t, fail)]

\* get_network_info past its cache read: vals is the result of the nested
\* get_validators, k the first failing one of the five requests (0: none)
network_from_rpc(resps, k, vals, tbl, avail, t, fail) ==
    IF k # 0
    THEN [out |-> Raise("Exception", << "Failed to get network info",
                                        make_rpc_request(resps[k]).msg >>),
          calls |-> Sent(NetworkMethods, resps), src |-> "rpc", tbl |-> tbl]
    ELSE IF ~vals.out.ok
    THEN [out |-> Raise("Exception", << "Failed to get network info", vals.out.msg >>),
          calls |-> Sent(NetworkMethods, resps) \o vals.calls, src |-> "rpc",
          tbl |-> tbl]
    ELSE network_stored(
             network_processed_data(make_rpc_request(resps[1]).val,
                                    make_rpc_request(resps[2]).val,
                                    make_rpc_request(resps[3]).val,
                                    make_rpc_request(resps[4]).val,
                                    make_rpc_request(resps[5]).val,
                                    vals.out.val),
             Sent(NetworkMethods, resps) \o vals.calls, tbl, avail, t, fail)

\* SolanaClient.get_network_info.  cached_data and cached_validators are what
\* get_latest_network_info and get_latest_validators_data return; resps are the
\* responses to the five requests of NetworkMethods and resp_v the response to
\* the getVoteAccounts request of the nested get_validators; tbl is the
\* network_info table and `tbl` of the result the table after the call.
get_network_info(use_cache, cached_data, cached_validators, resps, resp_v, tbl, avail, t, fail) ==
    IF use_cache /\ ~IsNone(cached_data)
    THEN [out |-> Return(The(cached_data)), calls |-> << >>, src |-> "cache",
          tbl |-> tbl]
    ELSE network_from_rpc(resps, FirstFailure(resps),
                          get_validators(use_cache, cached_validators, resp_v),
                          tbl, avail, t, fail)

\* int(balance * 1e9)
ToLamports(balance) ==
    LET x == RMul(balance, RInt(UnitsPerSol))
    IN  x.n \div x.d

\* the cached account converted to the shape the data processor expects
cached_account(account) ==
    [pubkey |-> account.pubkey,
     account |-> [lamports |-> ToLamports(account.balance),
                  data |-> [parsed |-> IF TruthyOpt(account.parsed)
                                       THEN The(account.parsed)
                                       ELSE EmptyDict]]]

\* get_stake_accounts lines 272-287: the scan returned `result`; epoch_info is
\* the outcome of get_epoch_info and processor that of DataProcessor(None, None,
\* result).  Whatever is raised is caught, and result is returned.
stake_stored(result, epoch_info, processor, calls, tbl, avail, t, fail) ==
    [out |-> Return(result), calls |-> calls, src |-> "rpc",
     tbl |-> IF epoch_info.ok /\ processor.ok
             THEN store_stake_accounts(tbl, avail,
                                       Some(processor.val.processed_stake_info),
                                       Get(epoch_info.val, "epoch", 0), t, fail)
             ELSE tbl]

\* get_stake_accounts lines 288-292: the outer except branch
stake_scan_failed(resp_scan, tbl) ==
    [out |-> Return(<< >>),
     calls |-> << Request("getProgramAccounts", resp_scan) >>,
     src |-> "rpc", tbl |-> tbl]

\* get_stake_accounts lines 269-287: the scan returned `result`
stake_scanned(result, resp_scan, resp_epoch, tbl, avail, t, fail) ==
    IF ~Truthy(result)
    THEN [out |-> Return(result),
          calls |-> << Request("getProgramAccounts", resp_scan) >>,
          src |-> "rpc", tbl |-> tbl]
    ELSE stake_stored(result, make_rpc_request(resp_epoch),
                      DataProcessor(None, None, result, t),
                      << Request("getProgramAccounts", resp_scan),
                         Request("getEpochInfo", resp_epoch) >>,
                      tbl, avail, t, fail)

\* A stake fetch that lets the remote's error on the scan reach its caller.
stake_from_rpc_raising_rpc_error(result, resp_scan, resp_epoch, tbl, avail, t, fail) ==
    IF ~result.ok /\ IsRemoteError(resp_scan)
    THEN [out |-> result,
          calls |-> << Request("getProgramAccounts", resp_scan) >>,
          src |-> "rpc", tbl |-> tbl]
    ELSE IF ~result.ok
    THEN stake_scan_failed(resp_scan, tbl)
    ELSE stake_scanned(result.val, resp_scan, resp_epoch, tbl, avail, t, fail)

\* A stake fetch that lets a transport failure of the scan reach its caller.
stake_from_rpc_raising_transport(result, resp_scan, resp_epoch, tbl, avail, t, fail) ==
    IF ~result.ok /\ IsTransportFailure(resp_scan)
    THEN [out |-> result,
          calls |-> << Request("getProgramAccounts", resp_scan) >>,
          src |-> "rpc", tbl |-> tbl]
    ELSE IF ~result.ok
    THEN stake_scan_failed(resp_scan, tbl)
    ELSE stake_scanned(result.val, resp_scan, resp_epoch, tbl, avail, t, fail)

\* get_stake_accounts past its cache read: result is the outcome of the scan
stake_from_rpc(result, resp_scan, resp_epoch, tbl, avail, t, fail) ==
    IF ~result.ok
    THEN stake_scan_failed(resp_scan, tbl)
    ELSE stake_scanned(result.val, resp_scan, resp_epoch, tbl, avail, t, fail)

\* SolanaClient.get_stake_accounts.  cached_data is what get_latest_stake_data
\* returns; resp_scan answers getProgramAccounts and resp_epoch the getEpochInfo
\* request sent when the scan returned accounts; tbl is the stake_accounts table.
get_stake_accounts(use_cache, cached_data, resp_scan, resp_epoch, tbl, avail, t, fail) ==
    IF use_cache /\ ~IsNone(cached_data)
    THEN [out |-> Return([i \in 1..Len(Get(The(cached_data), "accounts", << >>)) |->
                            cached_account(The(cached_data).accounts[i])]),
          calls |-> << >>, src |-> "cache", tbl |-> tbl]
    ELSE stake_from_rpc(make_rpc_request(resp_scan), resp_scan, resp_epoch,
                        tbl, avail, t, fail)

(***************************************************************************)
(* The program state.                                                      *)
(***************************************************************************)
VARIABLES
    database_available,     \* database.py: the module flag set at import
    tbl_validator_info,     \* the rows of table validator_info
    tbl_network_info,       \* the rows of table network_info
    tbl_stake_accounts,     \* the rows of table stake_accounts
    now,                    \* the wall clock (seconds)
    ticks,                  \* advances of the clock so far
    last_update_time,       \* st.session_state.last_update_time
    validators_data,        \* st.session_state.validators_data (optional)
    network_data,           \* st.session_state.network_data (optional)
    stake_data,             \* st.session_state.stake_data (optional)
    refresh_interval,       \* st.session_state.refresh_interval
    pc,                     \* where the current script run is
    current_time,           \* app.py: current_time of the run
    should_update,          \* app.py: should_update of the run
    fresh_shown,            \* the sidebar says "Using cached data from database"
    cycle_fresh,            \* the cache was fresh (cache_max_age) when the run began
    validators_info,        \* app.py: validators_info of the run (optional)
    network_info,           \* app.py: network_info of the run (optional)
    stake_accounts,         \* app.py: stake_accounts of the run (optional)
    error,                  \* the exception caught by the run (optional)
    rpc_log,                \* the requests the run has sent to the endpoint
    sources,                \* where each fetch of the run took its data from
    rendered,               \* what the run's page rendering was given (optional)
    cycles,                 \* refresh cycles started so far
    last_good,              \* the triple stored by the last successful cycle
    last_store,             \* history: the last call of a Cache Store write (optional)
    refresh_failed          \* history: the refresh block of the last run caught an exception

db_vars == << database_available, tbl_validator_info, tbl_network_info,
              tbl_stake_accounts >>
session_vars == << last_update_time, validators_data, network_data, stake_data,
                   refresh_interval >>
run_vars == << pc, current_time, should_update, fresh_shown, cycle_fresh, validators_info,
               network_info, stake_accounts, error, rpc_log, sources, rendered >>
vars == << db_vars, now, ticks, session_vars, run_vars, cycles, last_good, last_store,
          refresh_failed >>

NoSources == [validators |-> "none", network |-> "none", stake |-> "none"]
\* the session's displayed triple
Triple == [validators |-> validators_data, network |-> network_data,
           stake |-> stake_data]
\* no script run is in progress
Idle == pc \in {"idle", "stopped"}
\* a query or commit can only raise when there is a database to talk to
Faults == IF database_available THEN BOOLEAN ELSE {FALSE}
\* a failing query of an empty table returns what a successful one returns
QueryFaults(tbl) == IF tbl # << >> THEN Faults ELSE {FALSE}

\* The responses the model explores.  Within one fetch the remote answers from
\* one of its states g; what follows the first failing response of a fetch is
\* never requested, so it is left out.
RemoteStates == {1, 2}
VoteAccountsOf(g) ==
    CHOOSE r \in VoteAccountsResults : (g = 1) = (r.delinquent # << >>)
EpochInfoOf(g) == CHOOSE r \in EpochInfoResults : r.epoch = g

VoteResponses ==
    {OkResponse(r) : r \in VoteAccountsResults}
        \cup FailResponses
        \cup {RemoteErrorWithResult(RateLimitError, VoteAccountsOf(1))}
\* the six responses to get_network_info: the five of NetworkMethods, then the
\* one to the getVoteAccounts request of the nested get_validators
NetworkAnswers(g) ==
    << OkResponse(EpochInfoOf(g)),
       OkResponse(CHOOSE r \in InflationRateResults : TRUE),
       OkResponse(CHOOSE r \in SupplyResults : TRUE),
       OkResponse(CHOOSE r \in SlotResults : TRUE),
       OkResponse(CHOOSE r \in ClusterNodesResults : TRUE),
       OkResponse(VoteAccountsOf(g)) >>
NetworkFailures == {ConnectionDown, RemoteError(RateLimitError)}
NetworkResponses ==
    {NetworkAnswers(g) : g \in RemoteStates}
        \cup {[NetworkAnswers(1) EXCEPT ![k] = f] :
                k \in 1..(Len(NetworkMethods) + 1), f \in NetworkFailures}
\* the two responses to get_stake_accounts: to getProgramAccounts, then to
\* getEpochInfo
ScanFailures == {HttpFailure, RemoteError(ScanLimitError)}
StakeResponses ==
    {<< OkResponse(r), OkResponse(EpochInfoOf(1)) >> : r \in ProgramAccountsResults}
        \cup {<< f, OkResponse(EpochInfoOf(1)) >> : f \in ScanFailures}
        \cup {<< OkResponse(r), f >> :
                r \in ProgramAccountsResults \ {<< >>}, f \in {ConnectionDown}}

(***************************************************************************)
(* database.py lines 13-33: the connection test at import decides          *)
(* database_available once; the tables start empty.  app.py lines 33-43:   *)
(* the session state of a new session.                                     *)
(***************************************************************************)
Init ==
    /\ database_available \in BOOLEAN
    /\ tbl_validator_info = << >>
    /\ tbl_network_info = << >>
    /\ tbl_stake_accounts = << >>
    /\ now = StartTime
    /\ ticks = 0
    /\ last_update_time = 0
    /\ validators_data = None
    /\ network_data = None
    /\ stake_data = None
    /\ refresh_interval = default_refresh_interval
    /\ pc = "idle"
    /\ current_time = 0
    /\ should_update = FALSE
    /\ fresh_shown = FALSE
    /\ cycle_fresh = FALSE
    /\ validators_info = None
    /\ network_info = None
    /\ stake_accounts = None
    /\ error = None
    /\ rpc_log = << >>
    /\ sources = NoSources
    /\ rendered = None
    /\ cycles = 0
    /\ last_good = None
    /\ last_store = None
    /\ refresh_failed = FALSE

\* time passes between two script runs
Tick(d) ==
    /\ Idle
    /\ ticks < MaxTicks
    /\ now' = now + d
    /\ ticks' = ticks + 1
    /\ UNCHANGED << db_vars, last_store, refresh_failed, session_vars, run_vars, cycles,
                    last_good >>

\* A run that refreshes as soon as refresh_interval seconds have passed.
RunStart_at_interval(interval, manual, qfail) ==
    LET lut == IF manual THEN 0 ELSE last_update_time
        update == (now - lut) >= interval
    IN  /\ Idle
        /\ update => cycles < MaxCycles
        /\ refresh_interval' = interval
        /\ last_update_time' = lut
        /\ current_time' = now
        /\ should_update' = update
        /\ fresh_shown' = (database_available
                           /\ is_data_fresh(tbl_network_info, database_available,
                                            interval \div 60, now, qfail))
        /\ cycle_fresh' = is_data_fresh(tbl_network_info, database_available,
                                        cache_max_age, now, FALSE)
        /\ validators_info' = None
        /\ network_info' = None
        /\ stake_accounts' = None
        /\ error' = None
        /\ rpc_log' = << >>
        /\ sources' = NoSources
        /\ rendered' = None
        /\ cycles' = IF update THEN cycles + 1 ELSE cycles
        /\ pc' = IF update THEN "get_validators" ELSE "render"
        /\ refresh_failed' = FALSE
        /\ UNCHANGED << db_vars, last_store, now, ticks, validators_data, network_data,
                        stake_data, last_good >>

\* app.py lines 45-90: a rerun of the script up to the refresh block.  interval
\* is the slider's value, manual the "Refresh Data Now" button.
RunStart(interval, manual, qfail) ==
    LET lut == IF manual THEN 0 ELSE last_update_time
        update == (now - lut) > interval
    IN  /\ Idle
        /\ update => cycles < MaxCycles
        /\ refresh_interval' = interval
        /\ last_update_time' = lut
        /\ current_time' = now
        /\ should_update' = update
        /\ fresh_shown' = (database_available
                           /\ is_data_fresh(tbl_network_info, database_available,
                                            interval \div 60, now, qfail))
        /\ cycle_fresh' = is_data_fresh(tbl_network_info, database_available,
                                        cache_max_age, now, FALSE)
        /\ validators_info' = None
        /\ network_info' = None
        /\ stake_accounts' = None
        /\ error' = None
        /\ rpc_log' = << >>
        /\ sources' = NoSources
        /\ rendered' = None
        /\ cycles' = IF update THEN cycles + 1 ELSE cycles
        /\ pc' = IF update THEN "get_validators" ELSE "render"
        /\ refresh_failed' = FALSE
        /\ UNCHANGED << db_vars, last_store, now, ticks, validators_data, network_data,
                        stake_data, last_good >>

\* An except branch that halts the script whatever the session holds.
except_always_stops(session_validators) == "stopped"

\* An except branch that goes on to render whatever the session holds.
except_always_renders(session_validators) == "render"

\* app.py lines 118-122, the except branch: where the run goes on after the
\* sidebar error; st.stop() when the session holds no validators
except_branch(session_validators) ==
    IF IsNone(session_validators) THEN "stopped" ELSE "render"

\* an exception raised inside the try block is caught
Caught(exception) ==
    /\ error' = Some([type |-> exception.type, msg |-> exception.msg])
    /\ pc' = except_branch(validators_data)

\* what client.get_validators(use_cache=database_available) can do in the
\* current state, over the responses of the remote and the faults of the query
ValidatorFetches ==
    {get_validators(
         database_available,
         get_latest_validators_data(tbl_validator_info, database_available, qfail),
         resp) : resp \in VoteResponses, qfail \in QueryFaults(tbl_validator_info)}

\* app.py line 100: client.get_validators(use_cache=database_available)
GetValidators ==
    /\ pc = "get_validators"
    /\ \E r \in ValidatorFetches :
          /\ rpc_log' = rpc_log \o r.calls
          /\ sources' = [sources EXCEPT !.validators = r.src]
          /\ IF r.out.ok
             THEN /\ validators_info' = Some(r.out.val)
                  /\ pc' = "get_network_info"
                  /\ error' = error
             ELSE /\ validators_info' = validators_info
                  /\ Caught(r.out)
    /\ refresh_failed' = ~IsNone(error')
    /\ UNCHANGED << db_vars, last_store, now, ticks, session_vars, current_time,
                    should_update, fresh_shown, cycle_fresh, network_info,
                    stake_accounts, rendered, cycles, last_good >>

\* what client.get_network_info(use_cache=database_available) can do in the
\* current state, over the responses of the remote and the faults of the two
\* queries and of the write
NetworkFetches ==
    {get_network_info(
         database_available,
         get_latest_network_info(tbl_network_info, database_available, qfail_n),
         get_latest_validators_data(tbl_validator_info, database_available, qfail_v),
         SubSeq(resps, 1, Len(NetworkMethods)),
         resps[Len(NetworkMethods) + 1],
         tbl_network_info, database_available, now, wfail) :
            resps \in NetworkResponses,
            qfail_n \in QueryFaults(tbl_network_info),
            qfail_v \in QueryFaults(tbl_validator_info),
            wfail \in Faults}

\* app.py line 101: client.get_network_info(use_cache=database_available)
GetNetworkInfo ==
    /\ pc = "get_network_info"
    /\ \E r \in NetworkFetches :
          /\ rpc_log' = rpc_log \o r.calls
          /\ sources' = [sources EXCEPT !.network = r.src]
          /\ tbl_network_info' = r.tbl
          /\ IF r.out.ok
             THEN /\ network_info' = Some(r.out.val)
                  /\ pc' = "get_stake_accounts"
                  /\ error' = error
             ELSE /\ network_info' = network_info
                  /\ Caught(r.out)
    /\ refresh_failed' = ~IsNone(error')
    /\ UNCHANGED << last_store, database_available, tbl_validator_info, tbl_stake_accounts,
                    now, ticks, session_vars, current_time, should_update,
                    fresh_shown, cycle_fresh, validators_info, stake_accounts,
                    rendered, cycles, last_good >>

\* A refresh block that stores the validators and the network snapshot of the
\* run but keeps the stake information the session already holds.
Process_keeping_stake(fetched_stake_accounts) ==
    \E processor \in {DataProcessor(validators_info, network_info,
                                    fetched_stake_accounts, now)} :
       IF processor.ok
       THEN /\ validators_data' = Some(processor.val.processed_validators)
            /\ network_data' = Some(processor.val.processed_network_info)
            /\ stake_data' = stake_data
            /\ last_update_time' = current_time
            /\ last_good' = Some([validators |-> validators_data',
                                  network |-> network_data',
                                  stake |-> Some(processor.val.processed_stake_info)])
            /\ pc' = "render"
            /\ error' = error
       ELSE /\ UNCHANGED << validators_data, network_data, stake_data,
                            last_update_time, last_good >>
            /\ Caught(processor)

\* app.py lines 104-117: DataProcessor over the three fetched values and the
\* update of the session state
Process(fetched_stake_accounts) ==
    \E processor \in {DataProcessor(validators_info, network_info,
                                    fetched_stake_accounts, now)} :
       IF processor.ok
       THEN /\ validators_data' = Some(processor.val.processed_validators)
            /\ network_data' = Some(processor.val.processed_network_info)
            /\ stake_data' = Some(processor.val.processed_stake_info)
            /\ last_update_time' = current_time
            /\ last_good' = Some([validators |-> validators_data',
                                  network |-> network_data',
                                  stake |-> stake_data'])
            /\ pc' = "render"
            /\ error' = error
       ELSE /\ UNCHANGED << validators_data, network_data, stake_data,
                            last_update_time, last_good >>
            /\ Caught(processor)

\* what client.get_stake_accounts(use_cache=database_available) can do in the
\* current state, over the responses of the remote and the faults of the query
\* and of the write
StakeFetches ==
    {get_stake_accounts(
         database_available,
         get_latest_stake_data(tbl_stake_accounts, database_available, stake_limit,
                               qfail),
         resps[1], resps[2],
         tbl_stake_accounts, database_available, now, wfail) :
            resps \in StakeResponses,
            qfail \in QueryFaults(tbl_stake_accounts),
            wfail \in Faults}

\* app.py lines 102-117: client.get_stake_accounts(use_cache=database_available)
\* and, with its result, the rest of the try block
GetStakeAccounts ==
    /\ pc = "get_stake_accounts"
    /\ \E r \in StakeFetches :
          /\ rpc_log' = rpc_log \o r.calls
          /\ sources' = [sources EXCEPT !.stake = r.src]
          /\ tbl_stake_accounts' = r.tbl
          /\ IF r.out.ok
             THEN /\ stake_accounts' = Some(r.out.val)
                  /\ Process(r.out.val)
             ELSE /\ stake_accounts' = stake_accounts
                  /\ Caught(r.out)
                  /\ UNCHANGED << validators_data, network_data, stake_data,
                                        last_update_time, last_good >>
    /\ refresh_failed' = ~IsNone(error')
    /\ UNCHANGED << last_store, database_available, tbl_validator_info, tbl_network_info,
                    now, ticks, refresh_interval, current_time, should_update,
                    fresh_shown, cycle_fresh, validators_info, network_info,
                    rendered, cycles >>

\* app.py lines 124-139: the page selected in the sidebar (pg) is rendered from
\* the session state
PageView(pg, triple) ==
    [page |-> pg,
     validators_data |-> IF pg \in {"Overview", "Validator Metrics"}
                         THEN triple.validators ELSE None,
     network_data |-> IF pg \in {"Overview", "Network Statistics"}
                      THEN triple.network ELSE None,
     stake_data |-> IF pg \in {"Overview", "Stake Distribution"}
                    THEN triple.stake ELSE None]

Render(pg) ==
    /\ pc = "render"
    /\ rendered' = Some(PageView(pg, Triple))
    /\ pc' = "footer"
    \* nothing below reads the values of the refresh block
    /\ current_time' = 0
    /\ should_update' = FALSE
    /\ fresh_shown' = FALSE
    /\ cycle_fresh' = FALSE
    /\ validators_info' = None
    /\ network_info' = None
    /\ stake_accounts' = None
    /\ error' = None
    /\ rpc_log' = << >>
    /\ sources' = NoSources
    /\ UNCHANGED << db_vars, last_store, refresh_failed, now, ticks, session_vars, cycles,
                    last_good >>

\* app.py lines 141-170: the footer; force is the "Force Database Refresh"
\* button, which exists only when the database is available
Footer(force) ==
    /\ pc = "footer"
    /\ force => database_available
    /\ last_update_time' = IF force THEN 0 ELSE last_update_time
    /\ pc' = "idle"
    /\ rendered' = None
    /\ UNCHANGED << db_vars, last_store, refresh_failed, now, ticks, validators_data,
                    network_data, stake_data, refresh_interval, current_time,
                    should_update, fresh_shown, cycle_fresh,
                    validators_info, network_info, stake_accounts, error, rpc_log,
                    sources, cycles, last_good >>

Next ==
    \/ \E d \in TickSteps : Tick(d)
    \/ \E interval \in RefreshIntervals, manual \in BOOLEAN,
          qfail \in QueryFaults(tbl_network_info) :
          RunStart(interval, manual, qfail)
    \/ GetValidators
    \/ GetNetworkInfo
    \/ GetStakeAccounts
    \/ \E pg \in Pages : Render(pg)
    \/ \E force \in BOOLEAN : Footer(force)

Spec == Init /\ [][Next]_vars

(***************************************************************************)
(* Properties of a refresh cycle.                                          *)
(***************************************************************************)
DataKinds == {"validators", "network", "stake"}
\* the run is a refresh cycle that has caught an exception
CycleFailed == should_update /\ ~IsNone(error) /\ pc \in {"render", "stopped"}
\* the run is a refresh cycle that has stored its triple in the session
CycleDone == pc = "render" /\ should_update /\ IsNone(error)
\* the requests of the run's stake-account fetch
InStakeFetch(i) == \E j \in 1..i : rpc_log[j].method = "getProgramAccounts"
\* the exception the run caught is the failure of the request e
Surfaced(e) ==
    /\ ~IsNone(error)
    /\ IF The(error).msg[1] = "Failed to get network info"
       THEN The(error).msg[2] = e.out.msg
       ELSE The(error).type = e.out.type /\ The(error).msg = e.out.msg
\* the outcome is the gateway's transport failure
IsTransportError(out) ==
    /\ ~out.ok
    /\ \/ out.type = "ConnectionError"
       \/ out.type = "Exception" /\ out.msg[1] = "RPC request failed with status"
\* the outcome is the gateway's RPC failure
IsRpcError(out) == ~out.ok /\ out.type = "Exception" /\ out.msg[1] = "RPC error"

\* C1: in a refresh cycle with the cache enabled and the cache not fresh (no
\* network snapshot younger than cache_max_age minutes when the cycle began),
\* no data set is read from the Cache Store.  Refuted: the network
\* information is read from the cache whatever its age.
C1_StaleCacheIsNotRead ==
    (should_update /\ database_available /\ ~cycle_fresh)
        => \A k \in DataKinds : sources[k] # "cache"

\* C2: in a refresh cycle with the cache enabled and the cache fresh (by
\* cache_max_age and by the age the application asks is_data_fresh about), no
\* data set comes from the RPC endpoint and no request is sent to it.  Refuted: the
\* validators and the stake accounts are requested from the endpoint.
C2_FreshCacheSendsNothing ==
    (should_update /\ database_available /\ cycle_fresh /\ fresh_shown)
        => /\ rpc_log = << >>
           /\ \A k \in DataKinds : sources[k] # "rpc"

\* C3: once a refresh cycle has failed while an earlier cycle had succeeded,
\* the session's triple is the triple of the last successful cycle, the run is
\* not halted, and its next step renders the selected page from that triple
\* and leaves the triple as it is.
C3_FailedCycleKeepsLastGood ==
    [][(CycleFailed /\ ~IsNone(last_good))
          => /\ Triple = The(last_good)
             /\ Triple' = Triple
             /\ pc = "render"
             /\ pc' = "footer"
             /\ \E pg \in Pages : rendered' = Some(PageView(pg, The(last_good)))]_vars

C3_Witness ==
    /\ pc = "render"
    /\ CycleFailed
    /\ ~IsNone(last_good)
    /\ rpc_log # << >>
    /\ ~rpc_log[Len(rpc_log)].out.ok

\* C4: a refresh cycle that fails when no cycle has ever succeeded halts the
\* run; nothing is rendered in it, and no page is ever rendered from absent
\* data.
C4_FirstFailureHalts ==
    /\ (CycleFailed /\ IsNone(last_good))
          => pc = "stopped" /\ IsNone(rendered)
    /\ pc = "stopped" => CycleFailed /\ IsNone(last_good)
    /\ ~IsNone(rendered)
          => /\ ~IsNone(validators_data)
             /\ ~IsNone(network_data)
             /\ ~IsNone(stake_data)

C4_Witness == pc = "stopped" /\ CycleFailed /\ IsNone(last_good) /\ IsNone(rendered)

\* what holds of every state in which the store is unavailable
C5_Unavailable ==
    ~database_available
       => /\ tbl_validator_info = << >>
          /\ tbl_network_info = << >>
          /\ tbl_stake_accounts = << >>
          /\ ~fresh_shown
          /\ ~is_data_fresh(tbl_network_info, database_available, cache_max_age,
                            now, FALSE)
          /\ IsNone(get_latest_validators_data(tbl_validator_info,
                                               database_available, FALSE))
          /\ IsNone(get_latest_network_info(tbl_network_info, database_available,
                                            FALSE))
          /\ IsNone(get_latest_stake_data(tbl_stake_accounts, database_available,
                                          stake_limit, FALSE))
          /\ store_network_info(tbl_network_info, database_available,
                                network_info, now, FALSE) = tbl_network_info
          /\ store_stake_accounts(tbl_stake_accounts, database_available,
                                  stake_data, 0, now, FALSE) = tbl_stake_accounts
          /\ \A k \in DataKinds : sources[k] # "cache"
          /\ ~IsNone(error) => rpc_log # << >> /\ ~rpc_log[Len(rpc_log)].out.ok
          /\ CycleDone
                => /\ \A k \in DataKinds : sources[k] = "rpc"
                   /\ ~IsNone(validators_data)
                   /\ ~IsNone(network_data)
                   /\ ~IsNone(stake_data)
                   /\ Triple = The(last_good)

\* C5: while the store is unavailable the freshness test is false, every
\* latest_* read returns None, every store_* write leaves its table as it is,
\* no fetch reads the cache, a refresh cycle fails only on a failed RPC
\* request and otherwise completes with RPC data; and availability never
\* changes after initialisation.
C5_StoreUnavailableDegrades ==
    [] C5_Unavailable /\ [][database_available' = database_available]_vars

C5_Witness ==
    /\ ~database_available
    /\ CycleDone
    /\ \A k \in DataKinds : sources[k] = "rpc"
    /\ cycles = MaxCycles

\* C6: when the remote answers the stake scan with a structured error, the
\* stake fetch returns the empty list, the validators and the network
\* information fetched before are kept, no exception reaches the refresh
\* block, and the cycle completes with an empty stake distribution next to
\* the processed validators of that cycle.
C6_ScanErrorDegrades ==
    \A i \in 1..Len(rpc_log) :
       (rpc_log[i].method = "getProgramAccounts" /\ IsRemoteError(rpc_log[i].resp))
          => /\ stake_accounts = Some(<< >>)
             /\ IsNone(error)
             /\ ~IsNone(validators_info)
             /\ ~IsNone(network_info)
             /\ pc = "render"
             /\ stake_data = Some(EmptyStakeInfo)
             /\ validators_data =
                   Some(process_validators(The(validators_info), The(network_info)))
             /\ Triple = The(last_good)

C6_Witness ==
    /\ CycleDone
    /\ stake_data = Some(EmptyStakeInfo)
    /\ \E i \in 1..Len(rpc_log) :
          /\ rpc_log[i].method = "getProgramAccounts"
          /\ IsRemoteError(rpc_log[i].resp)

\* C7 as stated: a transport failure of any RPC call of a cycle, the stake
\* scan included, makes the cycle fail.  Refuted by a transport failure of
\* the stake scan.
C7_TransportFailureIsFatal ==
    \A i \in 1..Len(rpc_log) :
       IsTransportFailure(rpc_log[i].resp) => CycleFailed /\ Surfaced(rpc_log[i])

\* C7: a transport failure of a request of the validator fetch or of the
\* network fetch makes the cycle fail with that failure as the exception
\* caught; every failure of a request of the stake fetch, a transport failure
\* as well as a structured remote error, is caught inside the fetch, and a
\* failed scan gives the empty list.
C7_OnlyStakeFetchDegrades ==
    \A i \in 1..Len(rpc_log) :
       /\ (IsTransportFailure(rpc_log[i].resp) /\ ~InStakeFetch(i))
             => /\ CycleFailed
                /\ Surfaced(rpc_log[i])
       /\ (~rpc_log[i].out.ok /\ InStakeFetch(i))
             => /\ IsNone(error)
                /\ pc = "render"
                /\ ~IsNone(stake_accounts)
                /\ rpc_log[i].method = "getProgramAccounts"
                      => stake_accounts = Some(<< >>)

C7_Witness ==
    /\ CycleDone
    /\ stake_data = Some(EmptyStakeInfo)
    /\ \E i \in 1..Len(rpc_log) :
          /\ rpc_log[i].method = "getProgramAccounts"
          /\ IsTransportFailure(rpc_log[i].resp)

\* C8: for every request sent, a response that is unreachable or has a
\* non-success status gives a transport failure, whatever its body holds;
\* otherwise a body with an error object gives an RPC failure that is not a
\* transport failure and carries that error object; otherwise the gateway
\* returns exactly the body's result.
C8_GatewayOutcome ==
    \A i \in 1..Len(rpc_log) :
       LET e == rpc_log[i]
       IN  IF IsTransportFailure(e.resp)
           THEN IsTransportError(e.out) /\ ~IsRpcError(e.out)
           ELSE IF "error" \in DOMAIN e.resp.body
           THEN /\ IsRpcError(e.out)
                /\ ~IsTransportError(e.out)
                /\ e.out.msg[2] = e.resp.body.error
           ELSE "result" \in DOMAIN e.resp.body
                   => e.out = Return(e.resp.body.result)

C8_Witness ==
    /\ \E i \in 1..Len(rpc_log) :
          /\ rpc_log[i].resp.status # HTTP_OK
          /\ "error" \in DOMAIN rpc_log[i].resp.body
          /\ IsTransportError(rpc_log[i].out)
    /\ CycleFailed

\* C9: a request that failed is the last request of its cycle: neither the
\* gateway nor a fetch sends it again, and no method is requested more often
\* in a cycle than the fetches call it (getVoteAccounts and getEpochInfo
\* twice, every other method once).
C9_NoRetry ==
    /\ \A i \in 1..Len(rpc_log) : ~rpc_log[i].out.ok => i = Len(rpc_log)
    /\ \A m \in {rpc_log[i].method : i \in 1..Len(rpc_log)} :
          Cardinality({i \in 1..Len(rpc_log) : rpc_log[i].method = m})
             <= IF m \in {"getVoteAccounts", "getEpochInfo"} THEN 2 ELSE 1

C9_Witness ==
    /\ Len(rpc_log) > 2
    /\ ~rpc_log[Len(rpc_log)].out.ok
    /\ rpc_log[Len(rpc_log)].method # "getProgramAccounts"
    /\ CycleFailed

\* the maximum ages, in minutes, the freshness test is tried with
MaxAges == {0, 1, default_refresh_interval \div 60, max_refresh_interval \div 60,
            cache_max_age, 60}

\* C10: is_data_fresh(max_age) never raises, and is true exactly when the
\* store is available, its query succeeds and the network_info table holds a
\* snapshot less than max_age minutes old (one exactly max_age minutes old is
\* not fresh).
C10_Freshness ==
    \A m \in MaxAges, fail \in BOOLEAN :
       /\ is_data_fresh(tbl_network_info, database_available, m, now, fail)
             \in BOOLEAN
       /\ is_data_fresh(tbl_network_info, database_available, m, now, fail)
             <=> /\ database_available
                 /\ ~fail
                 /\ \E i \in 1..Len(tbl_network_info) :
                       now - tbl_network_info[i].timestamp < 60 * m

C10_Witness ==
    /\ database_available
    /\ tbl_network_info # << >>
    /\ now - LatestRow(tbl_network_info).timestamp = 60
    /\ ~is_data_fresh(tbl_network_info, database_available, 1, now, FALSE)
    /\ is_data_fresh(tbl_network_info, database_available, 5, now, FALSE)
    /\ ~is_data_fresh(tbl_network_info, database_available, 5, now, TRUE)


(***************************************************************************)
(* The Cache Store on its own: the three writes of database.py called in   *)
(* any order with the records the program can hand them, the clock         *)
(* advancing between calls.  Each write touches one table only, so one     *)
(* table at a time is exercised.  last_store remembers the last call.      *)
(***************************************************************************)
\* rows a table may hold when a further write to it is explored
MaxStoredRows == 3
StoreEpochs == {1, 2}

\* n stake accounts as the remote's scan returns them, of one SOL each
ManyStakeAccounts(n) == List([i \in 1..n |-> StakeAccount(i, UnitsPerSol)])

\* the frames store_validators_data can be handed
ValidatorFrames ==
    {None, Some(<< >>)}
        \cup {Some(process_validators(VoteAccountsOf(g), EmptyDict)) : g \in RemoteStates}
\* the snapshots store_network_info can be handed: those get_network_info
\* builds, and a dict that lacks the keys the write reads
NetworkSnapshots ==
    {None, Some([epoch |-> [current |-> 1]])}
        \cup {Some(network_processed_data(
                       EpochInfoOf(g),
                       CHOOSE r \in InflationRateResults : TRUE,
                       CHOOSE r \in SupplyResults : TRUE,
                       CHOOSE r \in SlotResults : TRUE,
                       CHOOSE r \in ClusterNodesResults : TRUE,
                       VoteAccountsOf(g))) : g \in RemoteStates}
\* the stake data store_stake_accounts can be handed; the largest has one
\* account more than the reads of the client ask for
StakeInfos ==
    {None, Some(EmptyStakeInfo)}
        \cup {Some(process_stake_accounts(r)) : r \in ProgramAccountsResults \ {<< >>}}
        \cup {Some(process_stake_accounts(ManyStakeAccounts(stake_limit + 1)))}

\* the record of a call: `before` is the table as the call found it, and
\* `repeat` says that the call before it was the same call and did not fail
StoreCall(kind, data, epoch, fail, before) ==
    [kind |-> kind, data |-> data, epoch |-> epoch, failed |-> fail,
     before |-> before,
     repeat |-> /\ ~fail
                /\ ~IsNone(last_store)
                /\ The(last_store).kind = kind
                /\ ~The(last_store).failed
                /\ The(last_store).epoch = epoch
                /\ The(last_store).data = data]

StoreValidators(validators_df, epoch, fail) ==
    /\ tbl_network_info = << >> /\ tbl_stake_accounts = << >>
    /\ Len(tbl_validator_info) < MaxStoredRows
    /\ tbl_validator_info' =
           store_validators_data(tbl_validator_info, database_available,
                                 validators_df, epoch, now, fail)
    /\ last_store' = Some(StoreCall("validators", validators_df, epoch, fail,
                                    tbl_validator_info))
    /\ UNCHANGED << database_available, tbl_network_info, tbl_stake_accounts, now,
                    ticks, session_vars, run_vars, cycles, last_good, refresh_failed >>

StoreNetwork(data, fail) ==
    /\ tbl_validator_info = << >> /\ tbl_stake_accounts = << >>
    /\ Len(tbl_network_info) < MaxStoredRows
    /\ tbl_network_info' =
           store_network_info(tbl_network_info, database_available, data, now, fail)
    /\ last_store' = Some(StoreCall("network", data, 0, fail, tbl_network_info))
    /\ UNCHANGED << database_available, tbl_validator_info, tbl_stake_accounts, now,
                    ticks, session_vars, run_vars, cycles, last_good, refresh_failed >>

StoreStake(data, epoch, fail) ==
    /\ tbl_validator_info = << >> /\ tbl_network_info = << >>
    /\ Len(tbl_stake_accounts) < MaxStoredRows
    /\ tbl_stake_accounts' =
           store_stake_accounts(tbl_stake_accounts, database_available, data,
                                epoch, now, fail)
    /\ last_store' = Some(StoreCall("stake", data, epoch, fail, tbl_stake_accounts))
    /\ UNCHANGED << database_available, tbl_validator_info, tbl_network_info, now,
                    ticks, session_vars, run_vars, cycles, last_good, refresh_failed >>

StoreNext ==
    \/ \E d \in TickSteps : Tick(d)
    \/ \E validators_df \in ValidatorFrames, epoch \in StoreEpochs, fail \in Faults :
          StoreValidators(validators_df, epoch, fail)
    \/ \E data \in NetworkSnapshots, fail \in Faults : StoreNetwork(data, fail)
    \/ \E data \in StakeInfos, epoch \in StoreEpochs, fail \in Faults :
          StoreStake(data, epoch, fail)

StoreSpec == Init /\ [][StoreNext]_vars

\* the three reads of the store in the current state, their query not failing
ReadValidators(tbl) == get_latest_validators_data(tbl, database_available, FALSE)
ReadNetwork(tbl) == get_latest_network_info(tbl, database_available, FALSE)
ReadStake(tbl) == get_latest_stake_data(tbl, database_available, stake_limit, FALSE)
\* the write called last
LastCall == The(last_store)
Wrote(kind) == ~IsNone(last_store) /\ LastCall.kind = kind

\* C11: after a write has been called twice with the same records for the same
\* epoch, the read of its table returns what it returned after the first call
C11_WritesAreIdempotent ==
    (~IsNone(last_store) /\ LastCall.repeat) =>
        /\ Wrote("validators") =>
              ReadValidators(tbl_validator_info) = ReadValidators(LastCall.before)
        /\ Wrote("network") =>
              ReadNetwork(tbl_network_info) = ReadNetwork(LastCall.before)
        /\ Wrote("stake") =>
              ReadStake(tbl_stake_accounts) = ReadStake(LastCall.before)

\* the row written last, and the rows of its epoch
Newest(tbl) == tbl[Len(tbl)]
NewestEpochRows(tbl) == SelectSeq(tbl, LAMBDA r : r.epoch = Newest(tbl).epoch)
Min(a, b) == IF a <= b THEN a ELSE b
ReadLimits == {stake_limit, default_read_limit}
\* a read that has nothing to return, or whose query raises, returns None
AbsentWhenNothingToRead(tbl) ==
    /\ IsNone(get_latest_validators_data(tbl, database_available, TRUE))
    /\ IsNone(get_latest_network_info(tbl, database_available, TRUE))
    /\ IsNone(get_latest_stake_data(tbl, database_available, stake_limit, TRUE))
    /\ (~database_available \/ tbl = << >>) =>
          /\ IsNone(ReadValidators(tbl))
          /\ IsNone(ReadNetwork(tbl))
          /\ IsNone(ReadStake(tbl))
ValidatorsReadIsNewestEpoch(tbl) ==
    (database_available /\ tbl # << >>) =>
        /\ ~IsNone(ReadValidators(tbl))
        /\ Len(The(ReadValidators(tbl))) = Len(NewestEpochRows(tbl))
        /\ \A i \in 1..Len(NewestEpochRows(tbl)) :
              /\ The(ReadValidators(tbl))[i].votePubkey = NewestEpochRows(tbl)[i].vote_pubkey
              /\ The(ReadValidators(tbl))[i].activatedStake
                     = NewestEpochRows(tbl)[i].activated_stake
NetworkReadIsNewest(tbl) ==
    (database_available /\ tbl # << >>) =>
        ReadNetwork(tbl) = Some(json_loads(Newest(tbl).data_json))
\* the stake read returns the first `count` rows of the newest epoch
StakeReadIsNewestEpoch(tbl, limit, count) ==
    (database_available /\ tbl # << >>) =>
        \E got \in {get_latest_stake_data(tbl, database_available, limit, FALSE)} :
            /\ ~IsNone(got)
            /\ Len(The(got).accounts) = count
            /\ The(got).total_accounts = count
            /\ \A i \in 1..Min(count, Len(The(got).accounts)) :
                  /\ The(got).accounts[i].pubkey = NewestEpochRows(tbl)[i].pubkey
                  /\ The(got).accounts[i].balance = NewestEpochRows(tbl)[i].balance

\* C12 as stated: every read of the store returns None when the store is
\* unavailable or empty or its query fails, and otherwise all the records of
\* the most recently written epoch and none of another epoch
C12_ReadsReturnFullNewestEpoch ==
    /\ AbsentWhenNothingToRead(tbl_validator_info)
    /\ AbsentWhenNothingToRead(tbl_network_info)
    /\ AbsentWhenNothingToRead(tbl_stake_accounts)
    /\ ValidatorsReadIsNewestEpoch(tbl_validator_info)
    /\ NetworkReadIsNewest(tbl_network_info)
    /\ \A limit \in ReadLimits :
          StakeReadIsNewestEpoch(tbl_stake_accounts, limit,
                                 Len(NewestEpochRows(tbl_stake_accounts)))

\* C12, amended: every read of the store returns None when the store is
\* unavailable or empty or its query fails; otherwise the validator read returns
\* all the records of the most recently written epoch, the network read the
\* snapshot written last, and the stake read the first `limit` records of the
\* most recently written epoch (all of them when there are at most `limit`);
\* no read returns a record of another epoch
C12_ReadsReturnNewestEpochUpToLimit ==
    /\ AbsentWhenNothingToRead(tbl_validator_info)
    /\ AbsentWhenNothingToRead(tbl_network_info)
    /\ AbsentWhenNothingToRead(tbl_stake_accounts)
    /\ ValidatorsReadIsNewestEpoch(tbl_validator_info)
    /\ NetworkReadIsNewest(tbl_network_info)
    /\ \A limit \in ReadLimits :
          StakeReadIsNewestEpoch(tbl_stake_accounts, limit,
                                 Min(limit, Len(NewestEpochRows(tbl_stake_accounts))))

\* the stake table holds rows of two epochs, more of the newest than the read
\* of the client asks for
C12_Witness ==
    /\ database_available
    /\ tbl_stake_accounts # << >>
    /\ Len(NewestEpochRows(tbl_stake_accounts)) > stake_limit
    /\ Len(NewestEpochRows(tbl_stake_accounts)) < Len(tbl_stake_accounts)

\* the table the last call wrote to
TableOf(kind) ==
    CASE kind = "validators" -> tbl_validator_info
      [] kind = "network" -> tbl_network_info
      [] kind = "stake" -> tbl_stake_accounts
\* client.get_network_info and client.get_stake_accounts taking their data from
\* the remote in state g, with the write-back failing or not
NetworkFromRemote(g, fail) ==
    get_network_info(FALSE, None, None, SubSeq(NetworkAnswers(g), 1, Len(NetworkMethods)),
                     NetworkAnswers(g)[Len(NetworkMethods) + 1],
                     tbl_network_info, database_available, now, fail)
StakeFromRemote(result, fail) ==
    get_stake_accounts(FALSE, None, OkResponse(result), OkResponse(EpochInfoOf(1)),
                       tbl_stake_accounts, database_available, now, fail)

\* C13: a write that fails leaves its table as it found it (nothing of the
\* record set is kept), and a fetch whose write-back fails returns, without
\* raising, the data it returns when the write-back succeeds
C13_WriteFailureIsSwallowed ==
    /\ (~IsNone(last_store) /\ LastCall.failed) =>
          TableOf(LastCall.kind) = LastCall.before
    /\ \A g \in RemoteStates :
          /\ NetworkFromRemote(g, TRUE).out.ok
          /\ NetworkFromRemote(g, TRUE).out = NetworkFromRemote(g, FALSE).out
          /\ NetworkFromRemote(g, TRUE).tbl = tbl_network_info
    /\ \A result \in ProgramAccountsResults :
          /\ StakeFromRemote(result, TRUE).out = Return(result)
          /\ StakeFromRemote(result, TRUE).out = StakeFromRemote(result, FALSE).out
          /\ StakeFromRemote(result, TRUE).tbl = tbl_stake_accounts

\* the write of a non-empty stake record set to a non-empty table has failed
C13_Witness ==
    /\ ~IsNone(last_store)
    /\ LastCall.failed
    /\ LastCall.kind = "stake"
    /\ TruthyOpt(LastCall.data)
    /\ The(LastCall.data).accounts # << >>
    /\ LastCall.before # << >>

(***************************************************************************)
(* What a refresh cycle leaves in the store.                               *)
(***************************************************************************)
AllFromRpc == [validators |-> "rpc", network |-> "rpc", stake |-> "rpc"]
\* the cycle's write of its network snapshot has been committed
SnapshotWritten ==
    /\ tbl_network_info # << >>
    /\ Newest(tbl_network_info).timestamp = current_time

\* C14: after a refresh cycle that took its three data sets from the remote,
\* with the store available and its write committed, the three reads of the
\* store return data (the cycle's validator records, snapshot and stake samples)
C14_CycleWritesThrough ==
    (CycleDone /\ database_available /\ sources = AllFromRpc /\ SnapshotWritten) =>
        /\ ~IsNone(ReadNetwork(tbl_network_info))
        /\ ~IsNone(ReadValidators(tbl_validator_info))
        /\ (The(stake_accounts) # << >>) => ~IsNone(ReadStake(tbl_stake_accounts))

(***************************************************************************)
(* The application started again over a database that an earlier run of    *)
(* the application has written to: a new session (app.py lines 33-43), the  *)
(* network_info table holding the snapshot of that run's last cycle.        *)
(***************************************************************************)
\* seconds since the earlier run wrote its snapshot
SnapshotAge == default_refresh_interval
EarlierSnapshot ==
    network_processed_data(EpochInfoOf(1),
                           CHOOSE r \in InflationRateResults : TRUE,
                           CHOOSE r \in SupplyResults : TRUE,
                           CHOOSE r \in SlotResults : TRUE,
                           CHOOSE r \in ClusterNodesResults : TRUE,
                           VoteAccountsOf(1))

RestartInit ==
    /\ database_available = TRUE
    /\ tbl_validator_info = << >>
    /\ tbl_network_info = store_network_info(<< >>, TRUE, Some(EarlierSnapshot),
                                             StartTime - SnapshotAge, FALSE)
    /\ tbl_stake_accounts = << >>
    /\ now = StartTime
    /\ ticks = 0
    /\ last_update_time = 0
    /\ validators_data = None
    /\ network_data = None
    /\ stake_data = None
    /\ refresh_interval = default_refresh_interval
    /\ pc = "idle"
    /\ current_time = 0
    /\ should_update = FALSE
    /\ fresh_shown = FALSE
    /\ cycle_fresh = FALSE
    /\ validators_info = None
    /\ network_info = None
    /\ stake_accounts = None
    /\ error = None
    /\ rpc_log = << >>
    /\ sources = NoSources
    /\ rendered = None
    /\ cycles = 0
    /\ last_good = None
    /\ last_store = None
    /\ refresh_failed = FALSE

RestartSpec == RestartInit /\ [][Next]_vars

\* the refresh cycle has come to its end, one way or the other
CycleOver == should_update /\ pc \in {"render", "stopped"}

\* C15: with the store available and holding data of an earlier cycle, a
\* refresh cycle ends without an exception and with data to show, also when
\* the remote fails and the session holds nothing
C15_StoreCoversRpcFailure ==
    (CycleOver /\ database_available /\ tbl_network_info # << >>) =>
        /\ IsNone(error)
        /\ pc = "render"
        /\ ~IsNone(validators_data) /\ ~IsNone(network_data) /\ ~IsNone(stake_data)

(***************************************************************************)
(* The Aggregator on its own: a refresh cycle that has fetched             *)
(* validators_info and network_info, drawn from the sets below, and        *)
(* receives its stake accounts and runs DataProcessor (app.py lines        *)
(* 102-117).                                                               *)
(***************************************************************************)
\* validator lists up to this length are explored exhaustively
MaxValidators == 3
\* stake-account lists up to this length are explored exhaustively
MaxStakeAccounts == 2
\* activated stakes, in units: 0, 0.25 and 0.5 SOL
StakeUnits == {0, 250, 500}
\* the N of stake_top10, stake_top20, stake_top50
TopSizes == {10, 20, 50}
\* lengths of the long validator lists: one more than each N
LongSizes == {n + 1 : n \in TopSizes}
\* balances, in units: 0, 2.5 and 100 SOL
BalanceUnits == {0, 2500, 100000}
\* balances on and next to every edge of the stake-size buckets, in units
EdgeBalanceUnits ==
    << 0, 99999, 100000, 999999, 1000000, 9999999, 10000000, 99999999, 100000000,
       150000000 >>

\* getVoteAccounts results: the first k validators current, the rest delinquent
ValidatorsInfoOf(stakes, k) ==
    [current |-> List([i \in 1..k |-> Validator(i, stakes[i], 5 * (i % 5))]),
     delinquent |-> List([i \in 1..(Len(stakes) - k) |->
                            Validator(k + i, stakes[k + i], 5)])]
ShortStakeLists == UNION {[1..k -> StakeUnits] : k \in 0..MaxValidators}
LongStakeLists ==
    {[i \in 1..n |-> 250] : n \in LongSizes} \cup {[i \in 1..n |-> 10 * i] : n \in LongSizes}
AggValidatorInputs ==
    {EmptyDict}
        \cup UNION {{ValidatorsInfoOf(s, k) : k \in {Len(s), Len(s) - 1} \cap Nat} :
                       s \in ShortStakeLists}
        \cup {ValidatorsInfoOf(s, Len(s) - 1) : s \in LongStakeLists}
\* network_info in the shape the Aggregator reads, and in the shape
\* get_network_info returns
AggNetworkInputs ==
    {[epoch_info |-> EpochInfoOf(1),
      inflation_rate |-> [total |-> RInt(6), validator |-> RInt(5),
                          foundation |-> RInt(1)],
      supply_info |-> CHOOSE r \in SupplyResults : TRUE,
      slot_info |-> CHOOSE r \in SlotResults : TRUE,
      cluster_nodes |-> CHOOSE r \in ClusterNodesResults : TRUE],
     EarlierSnapshot}
AccountsOf(units) == List([i \in 1..Len(units) |-> StakeAccount(i, units[i])])
AggStakeInputs ==
    {AccountsOf(u) : u \in UNION {[1..k -> BalanceUnits] : k \in 0..MaxStakeAccounts}}
        \cup {AccountsOf(EdgeBalanceUnits),
              AccountsOf([i \in 1..(ui_account_limit + 1) |-> 50000 * i]),
              << [pubkey |-> << "stake", 0 >>] >>}

AggInit ==
    /\ database_available = FALSE
    /\ tbl_validator_info = << >>
    /\ tbl_network_info = << >>
    /\ tbl_stake_accounts = << >>
    /\ now = StartTime
    /\ ticks = 0
    /\ last_update_time = 0
    /\ validators_data = None
    /\ network_data = None
    /\ stake_data = None
    /\ refresh_interval = default_refresh_interval
    /\ pc = "get_stake_accounts"
    /\ current_time = StartTime
    /\ should_update = TRUE
    /\ fresh_shown = FALSE
    /\ cycle_fresh = FALSE
    /\ validators_info \in {Some(v) : v \in AggValidatorInputs}
    /\ network_info \in {Some(n) : n \in AggNetworkInputs}
    /\ stake_accounts = None
    /\ error = None
    /\ rpc_log = << >>
    /\ sources = [validators |-> "rpc", network |-> "rpc", stake |-> "none"]
    /\ rendered = None
    /\ cycles = 1
    /\ last_good = None
    /\ last_store = None
    /\ refresh_failed = FALSE

\* app.py lines 102-117 with the stake fetch returning `accounts`
Aggregate(accounts) ==
    /\ pc = "get_stake_accounts"
    /\ stake_accounts' = Some(accounts)
    /\ sources' = [sources EXCEPT !.stake = "rpc"]
    /\ Process(accounts)
    /\ refresh_failed' = ~IsNone(error')
    /\ UNCHANGED << db_vars, last_store, now, ticks, refresh_interval, current_time,
                    should_update, fresh_shown, cycle_fresh, validators_info,
                    network_info, rpc_log, rendered, cycles >>

AggNext == \E accounts \in AggStakeInputs : Aggregate(accounts)

AggSpec == AggInit /\ [][AggNext]_vars

\* DataProcessor has run
Aggregated == pc = "render" /\ ~IsNone(validators_data)
\* a column of the processed validators
Column(col) == List([i \in 1..Len(The(validators_data)) |-> The(validators_data)[i][col]])
\* the validators handed to DataProcessor, merged
AllValidators ==
    Get(The(validators_info), "current", << >>)
        \o Get(The(validators_info), "delinquent", << >>)
\* the total of the stakes handed to DataProcessor, in SOL
TotalStake == RSum(validator_stakes(AllValidators))

\* C16: the stake percentages of the processed validators sum to 100 when the
\* total stake is positive; when it is zero (no validator, or zero stakes
\* only) every percentage is 0 and the pass has not failed
C16_StakePercentages ==
    Aggregated =>
        /\ Len(The(validators_data)) = Len(AllValidators)
        /\ RGt(TotalStake, RZero) => RSum(Column("stakePercentage")) = RInt(100)
        /\ ~RGt(TotalStake, RZero) =>
              \A i \in 1..Len(The(validators_data)) :
                  The(validators_data)[i].stakePercentage = RZero

\* three validators, one of them delinquent, with different shares of a
\* positive total
C16_Witness ==
    /\ Aggregated
    /\ Len(The(validators_data)) = 3
    /\ \E i \in 1..3 : The(validators_data)[i].status = "Delinquent"
    /\ RGt(TotalStake, RZero)
    /\ \E i, j \in 1..3 :
          RGt(The(validators_data)[i].stakePercentage,
              The(validators_data)[j].stakePercentage)

\* the ranks of the processed validators
Ranks == {The(validators_data)[i].rank : i \in 1..Len(The(validators_data))}
StakeOf(i) == The(validators_data)[i].activatedStake
RankOf(i) == The(validators_data)[i].rank

Top(n) ==
    CASE n = 10 -> The(network_data).concentration.top10
      [] n = 20 -> The(network_data).concentration.top20
      [] n = 50 -> The(network_data).concentration.top50

\* the share, in percent of the total stake, of validators lo..hi of the list
ShareOf(lo, hi) ==
    RMul(RDiv(RSumRange(validator_stakes(AllValidators), lo, hi), TotalStake), RInt(100))

\* C18: top10 <= top20 <= top50 <= 100; the three are 0 when there is no
\* validator or no stake; top-N is 100 when the total stake is positive and
\* there are at most N validators; and, being the share of the N largest
\* stakes, top-N is no less than the share of the first N or of the last N
\* validators of the list
C18_Concentration ==
    Aggregated =>
        /\ RLe(Top(10), Top(20)) /\ RLe(Top(20), Top(50)) /\ RLe(Top(50), RInt(100))
        /\ (AllValidators = << >> \/ ~RGt(TotalStake, RZero)) =>
              \A n \in TopSizes : Top(n) = RZero
        /\ RGt(TotalStake, RZero) =>
              \A n \in TopSizes :
                  /\ Len(AllValidators) <= n => Top(n) = RInt(100)
                  /\ Len(AllValidators) > n =>
                        /\ RLe(ShareOf(1, n), Top(n))
                        /\ RLe(ShareOf(Len(AllValidators) - n + 1, Len(AllValidators)),
                               Top(n))

\* more than 50 validators, and the three concentrations all different
C18_Witness ==
    /\ Aggregated
    /\ \A n \in TopSizes : Len(AllValidators) > n
    /\ RLt(Top(10), Top(20)) /\ RLt(Top(20), Top(50)) /\ RLt(Top(50), RInt(100))

\* the balances, in SOL, of the stake accounts handed to DataProcessor
InputBalances ==
    List([i \in 1..Len(The(stake_accounts)) |->
            ToSol(Get(Get(The(stake_accounts)[i], "account", EmptyDict), "lamports", 0))])
BucketCounts == The(stake_data).distribution.counts
BucketAmounts == The(stake_data).distribution.amounts

\* C19: for a non-empty list of stake accounts of any length, the bucket counts
\* sum to the number of accounts, which is total_accounts, and the bucket
\* amounts sum to the sum of the balances, which is total_stake
C19_BucketSums ==
    (Aggregated /\ The(stake_accounts) # << >>) =>
        /\ RSum(List([k \in 1..Len(BucketCounts) |-> RInt(BucketCounts[k])]))
               = RInt(Len(The(stake_accounts)))
        /\ The(stake_data).total_accounts = Len(The(stake_accounts))
        /\ RSum(BucketAmounts) = RSum(InputBalances)
        /\ The(stake_data).total_stake = RSum(InputBalances)

\* more accounts than the account list of the result keeps, in several buckets
C19_Witness ==
    /\ Aggregated
    /\ Len(The(stake_accounts)) > ui_account_limit
    /\ Cardinality({k \in 1..Len(BucketCounts) : BucketCounts[k] > 0}) >= 3

\* C20: with no stake accounts (an empty list, or none) DataProcessor raises
\* nothing, the stake information has total_stake 0, total_accounts 0 and empty
\* categories, counts, amounts and accounts, and the validators and the network
\* information are what the two other passes make of their inputs
C20_EmptyStakeInput ==
    [][(pc = "get_stake_accounts" /\ stake_accounts' = Some(<< >>)) =>
          /\ error' = None
          /\ pc' = "render"
          /\ ~IsNone(stake_data')
          /\ The(stake_data').total_stake = RZero
          /\ The(stake_data').total_accounts = 0
          /\ The(stake_data').distribution.categories = << >>
          /\ The(stake_data').distribution.counts = << >>
          /\ The(stake_data').distribution.amounts = << >>
          /\ The(stake_data').accounts = << >>
          /\ validators_data'
                 = Some(process_validators(The(validators_info), The(network_info)))
          /\ network_data'
                 = Some(process_network_info(The(network_info), The(validators_data'),
                                             now))]_vars

\* DataProcessor has run on validators and no stake accounts
C20_Witness ==
    /\ Aggregated
    /\ stake_accounts = Some(<< >>)
    /\ Len(The(validators_data)) > 1
    /\ The(stake_data).total_accounts = 0


(***************************************************************************)
(* Properties of the displayed structures.                                 *)
(***************************************************************************)
\* a triple of processed structures without the snapshot's timestamp
Masked(p) ==
    [validators |-> p.processed_validators,
     network |-> [p.processed_network_info EXCEPT !.updated_at = 0],
     stake |-> p.processed_stake_info]
\* the session's triple without the snapshot's timestamp
MaskedTriple ==
    [validators |-> The(validators_data),
     network |-> [The(network_data) EXCEPT !.updated_at = 0],
     stake |-> The(stake_data)]
\* the aggregation of the run's raw inputs at the time t
Reaggregated(t) == DataProcessor(validators_info, network_info, The(stake_accounts), t)

FetchedInflation == Get(Get(The(network_info), "inflation", EmptyDict), "total", RZero)
\* the estimated yield for an inflation rate and a commission
YieldOf(rate, commission) == RRound2(RMul(rate, RSub(RInt(1), Rat(commission, 100))))

\* C22: the estimated yield of every validator a refresh cycle produces is
\* the total inflation rate of the network data that cycle obtained, times
\* (1 - commission / 100), rounded to 2 decimals.  Refuted: the network data
\* handed to the aggregation has no 'inflation_rate' entry, and the yield is
\* computed from the default rate of 8.
C22_YieldUsesFetchedInflation ==
    CycleDone =>
        \A i \in 1..Len(The(validators_data)) :
            The(validators_data)[i].estimatedAPY
                = YieldOf(FetchedInflation, The(validators_data)[i].commission)

\* the results of the run's network requests, as get_network_info keeps them
RawNetwork == The(network_info).raw_data
\* a rate of the snapshot is the rate the remote returned, as a fraction or
\* in percent
CarriesRate(shown, returned) == shown = returned \/ shown = RMul(returned, RInt(100))

\* C23: the snapshot a successful cycle displays, its network data having
\* come from the RPC endpoint, carries the epoch, slot index and slots per
\* epoch of that cycle's getEpochInfo result, the rates of its
\* getInflationRate result, the total and circulating supply of its
\* getSupply result, and progress = slot_index / slots_in_epoch * 100.
\* Refuted: the displayed snapshot is built from entries the fetched network
\* data does not have, and all these fields are 0.
C23_SnapshotCarriesFetchedFigures ==
    (CycleDone /\ sources.network = "rpc") =>
        /\ The(network_data).epoch.current = RawNetwork.epoch_info.epoch
        /\ The(network_data).epoch.slot_index = RawNetwork.epoch_info.slotIndex
        /\ The(network_data).epoch.slots_in_epoch = RawNetwork.epoch_info.slotsInEpoch
        /\ The(network_data).epoch.progress_percentage
              = IF RawNetwork.epoch_info.slotsInEpoch = 0 THEN RZero
                ELSE RMul(Rat(RawNetwork.epoch_info.slotIndex,
                              RawNetwork.epoch_info.slotsInEpoch), RInt(100))
        /\ \A k \in {"total", "validator", "foundation"} :
              CarriesRate(The(network_data).inflation[k], RawNetwork.inflation_rate[k])
        /\ \A k \in {"total", "circulating"} :
              The(network_data).supply[k] = ToSol(RawNetwork.supply_info.value[k])

\* the Aggregator's snapshot of the raw results the run's network fetch kept
\* and of the validators the run aggregated
AggregatorSnapshotOfRaw ==
    process_network_info([epoch_info |-> RawNetwork.epoch_info,
                          inflation_rate |-> RawNetwork.inflation_rate,
                          supply_info |-> RawNetwork.supply_info,
                          cluster_nodes |-> RawNetwork.cluster_nodes],
                         The(validators_data), now)

\* C24: the snapshot the network fetch builds (and writes to the cache) and
\* the Aggregator's snapshot of the same epoch info give the same time
\* remaining to the end of the epoch.  Refuted: the network fetch counts 2
\* seconds per slot, the Aggregator 0.4.
C24_TimeRemainingAgrees ==
    (CycleDone /\ sources.network = "rpc") =>
        The(network_info).epoch.hours_remaining
            = AggregatorSnapshotOfRaw.epoch.hours_remaining

\* C25: the snapshot the network fetch builds (and writes to the cache) and
\* the Aggregator's snapshot of the same raw data have the same staking
\* ratio, total staked / circulating supply * 100 (0 when the circulating
\* supply is 0).  Refuted: the network fetch divides by the total supply and
\* does not multiply by 100.
C25_StakingRatioAgrees ==
    (CycleDone /\ sources.network = "rpc") =>
        /\ The(network_info).supply.staking_ratio
              = IF RGt(The(network_info).supply.circulating, RZero)
                THEN RMul(RDiv(The(network_info).supply.staked,
                               The(network_info).supply.circulating), RInt(100))
                ELSE RZero
        \* the nested validator fetch of the network fetch has returned the
        \* validators the run aggregated
        /\ The(network_info).supply.staked = AggregatorSnapshotOfRaw.supply.staked
              => The(network_info).supply.staking_ratio
                    = AggregatorSnapshotOfRaw.supply.staking_ratio

\* the lamports of the stake accounts handed to the aggregation, in units
InputUnits ==
    List([i \in 1..Len(The(stake_accounts)) |->
            Get(Get(The(stake_accounts)[i], "account", EmptyDict), "lamports", 0)])
\* the buckets as label, lower bound and upper bound in SOL (-1: none)
StatedBuckets ==
    << << "0-100", 0, 100 >>, << "100-1K", 100, 1000 >>, << "1K-10K", 1000, 10000 >>,
       << "10K-100K", 10000, 100000 >>, << "100K+", 100000, -1 >> >>
\* the balance of u units lies in the k-th bucket: lower bound <= balance <
\* upper bound
Holds(k, u) ==
    /\ StatedBuckets[k][2] * UnitsPerSol <= u
    /\ StatedBuckets[k][3] # -1 => u < StatedBuckets[k][3] * UnitsPerSol
\* the number and the units of the balances units[lo..hi] in the k-th bucket
RECURSIVE CountIn(_, _, _, _)
CountIn(units, k, lo, hi) ==
    IF lo > hi THEN 0
    ELSE IF lo = hi THEN (IF Holds(k, units[lo]) THEN 1 ELSE 0)
    ELSE CountIn(units, k, lo, (lo + hi) \div 2)
            + CountIn(units, k, (lo + hi) \div 2 + 1, hi)
RECURSIVE UnitsIn(_, _, _, _)
UnitsIn(units, k, lo, hi) ==
    IF lo > hi THEN 0
    ELSE IF lo = hi THEN (IF Holds(k, units[lo]) THEN units[lo] ELSE 0)
    ELSE UnitsIn(units, k, lo, (lo + hi) \div 2)
            + UnitsIn(units, k, (lo + hi) \div 2 + 1, hi)
BucketsAsStated(units, counts, amounts) ==
    /\ \A i \in 1..Len(units) : Cardinality({k \in 1..5 : Holds(k, units[i])}) = 1
    /\ \A k \in 1..5 :
          /\ counts[k] = CountIn(units, k, 1, Len(units))
          /\ amounts[k] = ToSol(UnitsIn(units, k, 1, Len(units)))
          /\ counts[k] = 0 => amounts[k] = RZero

\* C26: for a non-empty input the five buckets are reported in the order
\* [0,100), [100,1000), [1000,10000), [10000,100000), [100000,inf) SOL; every
\* account is counted in exactly one of them, the one whose lower bound is at
\* most its balance and whose upper bound is above it (a balance on a
\* boundary in the bucket starting there, a balance of 0 in the first); a
\* bucket without accounts has count 0 and amount 0
C26_HalfOpenBuckets ==
    (Aggregated /\ The(stake_accounts) # << >>) =>
        /\ The(stake_data).distribution.categories
              = [k \in 1..5 |-> StatedBuckets[k][1]]
        /\ Len(BucketCounts) = 5
        /\ Len(BucketAmounts) = 5
        /\ \A units \in {InputUnits} :
              BucketsAsStated(units, BucketCounts, BucketAmounts)

\* two accounts, one of 0 and one of exactly 100 SOL: one in each of the first
\* two buckets, three buckets without accounts
C26_Witness ==
    /\ Aggregated
    /\ InputUnits = << 0, 100 * UnitsPerSol >>
    /\ BucketCounts = << 1, 1, 0, 0, 0 >>
    /\ BucketAmounts = << RZero, RInt(100), RZero, RZero, RZero >>

\* the validator list v and the snapshot n are of one aggregation: the
\* snapshot counts and sums the validators of the list
OfOneAggregation(v, n, s) ==
    IF IsNone(v)
    THEN IsNone(n) /\ IsNone(s)
    ELSE /\ ~IsNone(n)
         /\ ~IsNone(s)
         /\ The(n).validators.total = Len(The(v))
         /\ The(n).supply.staked
               = RSum(List([i \in 1..Len(The(v)) |-> The(v)[i].activatedStake]))
\* v, n and s are the three outputs of one aggregation of the raw data vi, ni
\* and sa at the time t
OutputOf(v, n, s, vi, ni, sa, t) ==
    IF IsNone(sa) THEN FALSE
    ELSE \E processor \in {DataProcessor(vi, ni, The(sa), t)} :
            /\ processor.ok
            /\ v = Some(processor.val.processed_validators)
            /\ n = Some(processor.val.processed_network_info)
            /\ s = Some(processor.val.processed_stake_info)
\* the step replaces one of the three displayed structures
TripleReplaced == Triple' # Triple
\* the step ends a refresh cycle without an exception
CycleSucceeds == pc # "render" /\ pc' = "render" /\ should_update' /\ IsNone(error')

\* C27: the three displayed structures are replaced only together, with the
\* last-update time, by the step that ends a refresh cycle without an
\* exception, and then by the three outputs of one aggregation of that
\* cycle's raw data, the snapshot counting and summing the validators of the
\* list; a step that catches an exception replaces none of them
C27_TripleIsOfOneCycle ==
    /\ [](CycleDone =>
             /\ OutputOf(validators_data, network_data, stake_data,
                         validators_info, network_info, stake_accounts, now)
             /\ OfOneAggregation(validators_data, network_data, stake_data)
             /\ last_update_time = current_time
             /\ current_time = now)
    /\ [][/\ TripleReplaced => CycleSucceeds
          /\ ~IsNone(error') =>
                /\ Triple' = Triple
                /\ last_update_time' = last_update_time]_vars

\* a second cycle has replaced the triple: the list, the snapshot and the
\* last-update time are of this run
C27_Witness ==
    /\ CycleDone
    /\ cycles = MaxCycles
    /\ now > StartTime
    /\ last_update_time = now
    /\ The(network_data).updated_at = now
    /\ Len(The(validators_data)) > 1
    /\ The(network_data).validators.total = Len(The(validators_data))


(***************************************************************************)
(* The schedule of the refresh, with the runs given the two lowest         *)
(* positions of the interval slider.                                       *)
(***************************************************************************)
SliderIntervals == {min_refresh_interval, default_refresh_interval}

SliderNext ==
    \/ \E d \in TickSteps : Tick(d)
    \/ \E interval \in SliderIntervals, manual \in BOOLEAN,
          qfail \in QueryFaults(tbl_network_info) :
          RunStart(interval, manual, qfail)
    \/ GetValidators
    \/ GetNetworkInfo
    \/ GetStakeAccounts
    \/ \E pg \in Pages : Render(pg)
    \/ \E force \in BOOLEAN : Footer(force)

SliderSpec == Init /\ [][SliderNext]_vars

\* the step begins a run
RunBegins == Idle /\ pc' \in {"get_validators", "render"}
\* the time of the last successful refresh (0: none)
LastSuccess == IF IsNone(last_good) THEN 0 ELSE The(The(last_good).network).updated_at
\* what the claim says of the steps of a run, but for the run after a failed
\* refresh
ScheduleOfRefresh ==
    /\ RunBegins =>
          \* the last-update time the run compares with is that of the last
          \* successful refresh, or 0 after a reset and before any success
          /\ last_update_time' \in {0, LastSuccess}
          /\ should_update' = (now - last_update_time' > refresh_interval')
          /\ now' = now
          \* the first run attempts the refresh
          /\ cycles = 0 => should_update'
          /\ pc' = "get_validators" <=> should_update'
    /\ last_update_time' # last_update_time =>
          \/ CycleSucceeds /\ last_update_time' = current_time /\ current_time = now
          \/ RunBegins /\ last_update_time' = 0
          \/ pc = "footer" /\ database_available /\ last_update_time' = 0
    /\ ~IsNone(error') => last_update_time' = last_update_time
    /\ pc' = "get_validators" /\ pc # pc' => RunBegins

\* C28: a run attempts the refresh exactly when more than refresh_interval
\* seconds have passed since the last-update time, which is the time of the
\* last successful refresh, or 0 at the start and after a manual reset; only
\* a successful refresh (to the time of its run) and a manual reset change
\* it; a failed refresh leaves it as it is; and the run after a failed
\* refresh attempts the refresh again.  Refuted in its last part: the run
\* after a failed refresh does not attempt it when the interval slider has
\* been moved up in between.
C28_FailedRefreshIsAlwaysRetried ==
    [][/\ ScheduleOfRefresh
       /\ (RunBegins /\ refresh_failed) => should_update']_vars

\* C28, amended: as above, and the run after a failed refresh attempts the
\* refresh again when its refresh interval is not above that of the failed
\* run
C28_FailedRefreshIsRetriedAtSameInterval ==
    [][/\ ScheduleOfRefresh
       /\ (RunBegins /\ refresh_failed /\ refresh_interval' <= refresh_interval)
             => should_update']_vars

\* a refresh has failed after an earlier one had succeeded: the last-update
\* time is still the time of the success, and more than the interval of the
\* failed run has passed since
C28_Witness ==
    /\ pc = "idle"
    /\ refresh_failed
    /\ ~IsNone(last_good)
    /\ last_update_time = LastSuccess
    /\ now - last_update_time > refresh_interval


(***************************************************************************)
(* What the client serves from the Cache Store.                            *)
(***************************************************************************)
\* the validators the store returns, and what get_validators makes of them
CachedValidators == The(ReadValidators(tbl_validator_info))
ServedValidators ==
    get_validators(TRUE, ReadValidators(tbl_validator_info),
                   CHOOSE r \in VoteResponses : TRUE).out.val
InList(v, list) == \E j \in 1..Len(list) : list[j].votePubkey = v.votePubkey

\* C29: every validator the store returns is in exactly one of the lists
\* get_validators serves from the cache, the current ones for an active and
\* the delinquent ones for a delinquent validator, and the aggregation of
\* the served lists has as many validators as were stored.  Refuted: both
\* served lists are empty.
C29_CachedValidatorsAreServed ==
    (database_available /\ ~IsNone(ReadValidators(tbl_validator_info))) =>
        /\ get_validators(TRUE, ReadValidators(tbl_validator_info),
                          CHOOSE r \in VoteResponses : TRUE).src = "cache"
        /\ \A i \in 1..Len(CachedValidators) :
              /\ InList(CachedValidators[i], ServedValidators.current)
                    <=> CachedValidators[i].status = "Active"
              /\ InList(CachedValidators[i], ServedValidators.delinquent)
                    <=> CachedValidators[i].status = "Delinquent"
        /\ Len(ServedValidators.current) + Len(ServedValidators.delinquent)
              = Len(CachedValidators)
        /\ Len(process_validators(ServedValidators, EmptyDict)) = Len(CachedValidators)

\* the stake accounts the store returns, what get_stake_accounts makes of
\* them, and the aggregation of that
CachedStakeAccounts == The(ReadStake(tbl_stake_accounts)).accounts
ServedStakeAccounts ==
    List(get_stake_accounts(TRUE, ReadStake(tbl_stake_accounts),
                            CHOOSE r \in StakeResponses : TRUE,
                            CHOOSE r \in StakeResponses : TRUE,
                            tbl_stake_accounts, database_available, now, FALSE).out.val)
ReaggregatedStakeAccounts == process_stake_accounts(ServedStakeAccounts).accounts

\* C30: each stake account the store returns comes out of get_stake_accounts
\* on its cached path and of the aggregation with the public key, the
\* balance and the parsed metadata it was stored with.  Refuted: the parsed
\* metadata comes out empty.
C30_StakeSamplesRoundTrip ==
    (database_available /\ ~IsNone(ReadStake(tbl_stake_accounts))) =>
        /\ Len(ReaggregatedStakeAccounts) = Len(CachedStakeAccounts)
        /\ \A i \in 1..Len(CachedStakeAccounts) :
              /\ ReaggregatedStakeAccounts[i].pubkey = CachedStakeAccounts[i].pubkey
              /\ ReaggregatedStakeAccounts[i].balance = CachedStakeAccounts[i].balance
              /\ ReaggregatedStakeAccounts[i].parsed = CachedStakeAccounts[i].parsed

=============================================================================
